---- MODULE Spec2Model ----
(***************************************************************************)
(* A model of the job pipeline's core of Induktr/EducationTracker:         *)
(* deduplicate_jobs, filter_recent_jobs, determine_experience_level,       *)
(* clean_job_description, normalize_currency and validate_job_data of      *)
(* src/src/utils.py, GoogleSheetsHandler.append_jobs of                    *)
(* src/src/sheets_handler.py, the search pipeline of                       *)
(* src/src/telegram_bot.py and src/src/main.py from the deduplication of   *)
(* a batch to the append, HeadHunterAPI._make_request of                   *)
(* src/src/hh_jobs.py and lambda_handler of src/src/lambda_function.py,    *)
(* each as a state machine that follows the statements of the Python       *)
(* function.                                                               *)
(*                                                                         *)
(* A Python str is a sequence of one-character strings.  A dict key that   *)
(* is missing is the value Absent, a key whose value is Python's None is   *)
(* the value None; neither is a sequence of characters.                    *)
(***************************************************************************)
EXTENDS Integers, Sequences, FiniteSets, TLC

VARIABLES
    pc,                  \* position in the function that is running
    jobs,                \* the batch handed to the function
    existing_ids,        \* deduplicate_jobs: the known ids
    i,                   \* index of the next element of the running for loop
    unique_jobs,         \* deduplicate_jobs: pass 1's list
    duplicates,          \* deduplicate_jobs: ids dropped by pass 1
    seen_ids,            \* deduplicate_jobs: pass 1's working set
    sorted_jobs,         \* deduplicate_jobs: unique_jobs, newest first
    final_unique_jobs,   \* deduplicate_jobs: pass 2's accepted list
    seen_job_signatures, \* deduplicate_jobs: full signatures accepted so far
    seen_job_content,    \* deduplicate_jobs: base signature -> accepted posting
    internal_duplicates, \* deduplicate_jobs: ids dropped by pass 2
    days,                \* filter_recent_jobs: the horizon
    now,                 \* filter_recent_jobs: datetime.now(timezone.utc), in seconds
    cutoff_date,         \* filter_recent_jobs: now - days, in seconds
    filtered_jobs,       \* filter_recent_jobs: the list being built
    earlier,             \* filter_recent_jobs: the calls made before, same batch and instant
    description,         \* determine_experience_level: its argument
    junior_score,        \* determine_experience_level: the three scores
    middle_score,
    senior_score,
    years,               \* determine_experience_level: the years parsed
    level,               \* determine_experience_level: the label returned
    result,              \* the value returned
    error,               \* the exception raised, NoError while there is none
    raw_description,     \* clean_job_description: the string the caller passed
    currency,            \* normalize_currency: its argument
    values,              \* append_jobs: the rows built for the valid postings
    sheet,               \* the rows of the jobs worksheet, below its header
    runs,                \* pipeline: each invocation's position and locals
    read_failed,         \* pipeline: some read of the stored ids has failed
    params,              \* _make_request: the query parameters
    retries,             \* _make_request: the retries counted so far
    slept,               \* _make_request: the delays slept, in seconds
    attempts,            \* _make_request: the outcome of each HTTP request sent
    event                \* lambda_handler: the event it was invoked with

vars == <<pc, jobs, existing_ids, i, unique_jobs, duplicates, seen_ids,
          sorted_jobs, final_unique_jobs, seen_job_signatures,
          seen_job_content, internal_duplicates, days, now, cutoff_date,
          filtered_jobs, earlier, description, junior_score, middle_score,
          senior_score, years, level, result, error,
          raw_description, currency, values, sheet,
          runs, read_failed, params, retries, slept, attempts, event>>

dedupVars == <<existing_ids, unique_jobs, duplicates, seen_ids, sorted_jobs,
               final_unique_jobs, seen_job_signatures, seen_job_content,
               internal_duplicates>>

filterVars == <<days, now, cutoff_date, filtered_jobs, earlier>>

levelVars == <<description, junior_score, middle_score, senior_score, years,
               level>>

\* What only the pipeline, _make_request and lambda_handler use.
requestVars == <<params, retries, slept, attempts>>

moreVars == <<runs, read_failed, requestVars, event>>

\* What only clean_job_description, normalize_currency and append_jobs use,
\* and what the functions modelled after them use.
restVars == <<raw_description, currency, values, sheet, moreVars>>

----------------------------------------------------------------------------
(* Python values *)

\* A dict key that is not there (dict.get then gives its default).
Absent == <<"Absent">>

\* Python's None stored under a key.
None == <<"None">>

\* The exceptions the modelled functions can raise.
NoError == "NoError"
AttributeError == "AttributeError"
TypeError == "TypeError"
ValueError == "ValueError"

IsStr(v) == v # Absent /\ v # None

\* dict.get(key, default): the default only when the key is missing.
Get(job, key, default) == IF job[key] = Absent THEN default ELSE job[key]

\* dict.get(key): None when the key is missing.
Get1(job, key) == IF job[key] = Absent THEN None ELSE job[key]

\* Python truthiness of a str or None.
Truthy(v) == v # None /\ v # Absent /\ v # <<>>

----------------------------------------------------------------------------
(* str operations *)

UpperChars == <<"A","B","C","D","E","F","G","H","I","J","K","L","M",
                "N","O","P","Q","R","S","T","U","V","W","X","Y","Z">>
LowerChars == <<"a","b","c","d","e","f","g","h","i","j","k","l","m",
                "n","o","p","q","r","s","t","u","v","w","x","y","z">>

\* The Cyrillic letters, each written by its code point: U+0410 .. U+042F are
\* the capitals, U+0430 .. U+044F the small letters.
CyrillicUpper == <<"u0410","u0411","u0412","u0413","u0414","u0415","u0416","u0417",
                    "u0418","u0419","u041a","u041b","u041c","u041d","u041e","u041f",
                    "u0420","u0421","u0422","u0423","u0424","u0425","u0426","u0427",
                    "u0428","u0429","u042a","u042b","u042c","u042d","u042e","u042f">>
CyrillicLower == <<"u0430","u0431","u0432","u0433","u0434","u0435","u0436","u0437",
                    "u0438","u0439","u043a","u043b","u043c","u043d","u043e","u043f",
                    "u0440","u0441","u0442","u0443","u0444","u0445","u0446","u0447",
                    "u0448","u0449","u044a","u044b","u044c","u044d","u044e","u044f">>

\* The characters of the model in code point order.
CodeOrder == <<"\t", "\n", " ", "+", "-", ".",
               "0","1","2","3","4","5","6","7","8","9", ":">>
             \o UpperChars \o LowerChars \o CyrillicUpper \o CyrillicLower

Chars == { CodeOrder[k] : k \in 1..Len(CodeOrder) }

\* The place of each character in that order.
OrdOf == [c \in Chars |-> CHOOSE k \in 1..Len(CodeOrder) : CodeOrder[k] = c]

Ord(c) == OrdOf[c]

\* The lowercase letter of each uppercase letter.
LowerOf ==
    LET upper == UpperChars \o CyrillicUpper
        lower == LowerChars \o CyrillicLower
    IN  [c \in { upper[k] : k \in 1..Len(upper) } |->
            lower[CHOOSE k \in 1..Len(upper) : upper[k] = c]]

LowerChar(c) == IF c \in DOMAIN LowerOf THEN LowerOf[c] ELSE c

\* str.lower()
Lower(s) == [k \in 1..Len(s) |-> LowerChar(s[k])]

IsSpace(c) == c \in {" ", "\t", "\n"}

\* str.strip()
Strip(s) ==
    IF \A k \in 1..Len(s) : IsSpace(s[k]) THEN <<>>
    ELSE LET first == CHOOSE a \in 1..Len(s) :
                          /\ ~IsSpace(s[a])
                          /\ \A b \in 1..(a - 1) : IsSpace(s[b])
             final == CHOOSE a \in 1..Len(s) :
                          /\ ~IsSpace(s[a])
                          /\ \A b \in (a + 1)..Len(s) : IsSpace(s[b])
         IN  SubSeq(s, first, final)

\* s[:n]
Prefix(s, n) == SubSeq(s, 1, IF Len(s) < n THEN Len(s) ELSE n)

\* s[-n:]
Suffix(s, n) == SubSeq(s, IF Len(s) < n THEN 1 ELSE Len(s) - n + 1, Len(s))

\* needle in haystack
Contains(haystack, needle) ==
    \E a \in 0..(Len(haystack) - Len(needle)) :
        SubSeq(haystack, a + 1, a + Len(needle)) = needle

\* s < t for two str, as Python compares them: by code point, then by length.
StrLess(s, t) ==
    \E k \in 1..(Len(t)) :
        /\ \A m \in 1..(k - 1) : m <= Len(s) /\ s[m] = t[m]
        /\ \/ k = Len(s) + 1
           \/ k <= Len(s) /\ Ord(s[k]) < Ord(t[k])

\* c repeated n times
Rep(c, n) == [k \in 1..n |-> c]

----------------------------------------------------------------------------
(* deduplicate_jobs, utils.py lines 87-197 *)

\* The number of leading and of trailing characters of two descriptions that
\* pass 2 compares.
DescSliceLen == 100

\* The company substring that makes a similar description alone a duplicate.
Skypro == <<"s","k","y","p","r","o">>

Hyphen == <<"-">>

\* A signature field that is lowercased but not stripped.
NormalizedNoStrip(job, field) == Lower(Get(job, field, <<>>))

\* job.get(field, '').lower().strip(), for a field that holds a str
Normalized(job, field) == Strip(Lower(Get(job, field, <<>>)))

\* f"{company}-{title}"
BaseSignature(job) ==
    Normalized(job, "company") \o Hyphen \o Normalized(job, "title")

\* f"{base_signature}-{location}"
FullSignature(job) ==
    BaseSignature(job) \o Hyphen \o Normalized(job, "location")

\* The sort key of line 128.
PostedAtKey(job) == Get(job, "posted_at", <<>>)

\* An insertion that puts job ahead of the elements with an equal key.
InsertDescBeforeEqual(sorted, job) ==
    LET ahead == Cardinality({k \in 1..Len(sorted) :
                     StrLess(PostedAtKey(job), PostedAtKey(sorted[k]))})
    IN  SubSeq(sorted, 1, ahead) \o <<job>> \o SubSeq(sorted, ahead + 1, Len(sorted))

\* One step of a stable sort by key, descending: job goes behind every
\* element whose key is not smaller than its own.
InsertDesc(sorted, job) ==
    LET ahead == Cardinality({k \in 1..Len(sorted) :
                     ~StrLess(PostedAtKey(sorted[k]), PostedAtKey(job))})
    IN  SubSeq(sorted, 1, ahead) \o <<job>> \o SubSeq(sorted, ahead + 1, Len(sorted))

\* No sort: pass 2 walks the postings in input order.
SortedDescUnsorted(seq) == seq

RECURSIVE SortedDescEqualReversed(_)
\* A descending sort that is not stable: postings with equal keys come out in
\* the reverse of their input order.
SortedDescEqualReversed(seq) ==
    IF seq = <<>> THEN <<>>
    ELSE InsertDescBeforeEqual(SortedDescEqualReversed(SubSeq(seq, 1, Len(seq) - 1)),
                               seq[Len(seq)])

RECURSIVE SortedDesc(_)
\* sorted(unique_jobs, key=lambda j: j.get('posted_at', ''), reverse=True)
SortedDesc(seq) ==
    IF seq = <<>> THEN <<>>
    ELSE InsertDesc(SortedDesc(SubSeq(seq, 1, Len(seq) - 1)), seq[Len(seq)])

\* sorted() compares keys as soon as there are two of them, and None does not
\* compare with a str or with None.
SortRaises(seq) ==
    Len(seq) >= 2 /\ \E k \in 1..Len(seq) : PostedAtKey(seq[k]) = None

\* A similarity test without the requirement that both descriptions be
\* non-empty.
DescSimilarityAllowEmpty(job, existing_job) ==
    LET job_desc == Lower(Get(job, "description", <<>>))
        existing_desc == Lower(Get(existing_job, "description", <<>>))
    IN  \/ Prefix(job_desc, DescSliceLen) = Prefix(existing_desc, DescSliceLen)
        \/ Suffix(job_desc, DescSliceLen) = Suffix(existing_desc, DescSliceLen)

\* Lines 159-162: both descriptions non-empty, and the first or the last
\* DescSliceLen characters of their lowercased texts equal.
DescSimilarity(job, existing_job) ==
    LET job_desc == Lower(Get(job, "description", <<>>))
        existing_desc == Lower(Get(existing_job, "description", <<>>))
    IN  /\ job_desc # <<>>
        /\ existing_desc # <<>>
        /\ \/ Prefix(job_desc, DescSliceLen) = Prefix(existing_desc, DescSliceLen)
           \/ Suffix(job_desc, DescSliceLen) = Suffix(existing_desc, DescSliceLen)

\* Lines 165-169.
SalarySimilarity(job, existing_job) ==
    /\ Get1(job, "salary_from") = Get1(existing_job, "salary_from")
    /\ Get1(job, "salary_to") = Get1(existing_job, "salary_to")
    /\ Get1(job, "salary_currency") = Get1(existing_job, "salary_currency")

\* Line 172.
IsDuplicate(job, existing_job) ==
    \/ DescSimilarity(job, existing_job) /\ SalarySimilarity(job, existing_job)
    \/ DescSimilarity(job, existing_job)
         /\ Contains(Normalized(job, "company"), Skypro)

\* Lines 134-139 call .lower() on the three fields: None has no such method.
SignatureRaises(job) ==
    \/ Get(job, "company", <<>>) = None
    \/ Get(job, "title", <<>>) = None
    \/ Get(job, "location", <<>>) = None

\* Lines 155-156 call .lower() on the two descriptions.
DescriptionRaises(job, existing_job) ==
    \/ Get(job, "description", <<>>) = None
    \/ Get(existing_job, "description", <<>>) = None

\* A pass 1 that starts from an empty working set, forgetting the known ids.
InitialSeenIdsEmpty(ids) == {}

\* Line 108: seen_ids = set(existing_ids).
InitialSeenIds(ids) == ids

\* Line 112: job_id not in seen_ids.
IsNewId(job_id, seen) == job_id \notin seen

\* A pass 1 that never records the ids it has let through.
AddSeenIdForgets(seen, job_id) == seen

\* Line 114: seen_ids.add(job_id).
AddSeenId(seen, job_id) == seen \cup {job_id}

\* Lines 91-92 and 106-108.
DedupStart ==
    /\ pc = "start"
    /\ IF jobs = <<>>
       THEN /\ pc' = "done"
            /\ result' = <<>>
            /\ UNCHANGED seen_ids
       ELSE /\ pc' = "pass1"
            /\ seen_ids' = InitialSeenIds(existing_ids)
            /\ UNCHANGED result
    /\ UNCHANGED <<jobs, existing_ids, i, unique_jobs, duplicates, sorted_jobs,
                   final_unique_jobs, seen_job_signatures, seen_job_content,
                   internal_duplicates, error, filterVars, levelVars,
                   restVars>>

\* A working set that is the caller's collection itself, not a copy of it.
CallerIdsAliased(ids, seen) == seen

\* Line 108: seen_ids is a new set, so the caller's collection ids stays as it
\* is whatever is added to seen.
CallerIds(ids, seen) == ids

\* Lines 110-116, one iteration.
Pass1Step ==
    /\ pc = "pass1"
    /\ i <= Len(jobs)
    /\ LET job == jobs[i]
           job_id == Get1(job, "job_id")
       IN  IF IsNewId(job_id, seen_ids)
           THEN /\ unique_jobs' = Append(unique_jobs, job)
                /\ seen_ids' = AddSeenId(seen_ids, job_id)
                /\ UNCHANGED duplicates
           ELSE /\ duplicates' = Append(duplicates, job_id)
                /\ UNCHANGED <<unique_jobs, seen_ids>>
    /\ existing_ids' = CallerIds(existing_ids, seen_ids')
    /\ i' = i + 1
    /\ UNCHANGED <<pc, jobs, sorted_jobs, final_unique_jobs,
                   seen_job_signatures, seen_job_content, internal_duplicates,
                   result, error, filterVars, levelVars,
                   restVars>>

\* Lines 126-130.
SortStep ==
    /\ pc = "pass1"
    /\ i > Len(jobs)
    /\ IF SortRaises(unique_jobs)
       THEN /\ pc' = "raised"
            /\ error' = TypeError
            /\ UNCHANGED <<sorted_jobs, i>>
       ELSE /\ pc' = "pass2"
            /\ sorted_jobs' = SortedDesc(unique_jobs)
            /\ i' = 1
            /\ UNCHANGED error
    /\ UNCHANGED <<jobs, existing_ids, unique_jobs, duplicates, seen_ids,
                   final_unique_jobs, seen_job_signatures, seen_job_content,
                   internal_duplicates, result, filterVars, levelVars,
                   restVars>>

\* A map that keeps the posting accepted first under a base signature.
RecordContentKeepFirst(content, base, job) ==
    [s \in DOMAIN content \cup {base} |->
        IF s \in DOMAIN content THEN content[s] ELSE job]

\* Line 179: seen_job_content[base_signature] = job.
RecordContent(content, base, job) ==
    [s \in DOMAIN content \cup {base} |-> IF s = base THEN job ELSE content[s]]

\* Lines 134-139 and 155-156: .lower() of None.
Pass2Raise ==
    /\ pc = "pass2"
    /\ i <= Len(sorted_jobs)
    /\ LET job == sorted_jobs[i]
       IN  \/ SignatureRaises(job)
           \/ /\ FullSignature(job) \notin seen_job_signatures
              /\ BaseSignature(job) \in DOMAIN seen_job_content
              /\ DescriptionRaises(job, seen_job_content[BaseSignature(job)])
    /\ pc' = "raised"
    /\ error' = AttributeError
    /\ UNCHANGED <<jobs, existing_ids, i, unique_jobs, duplicates, seen_ids,
                   sorted_jobs, final_unique_jobs, seen_job_signatures,
                   seen_job_content, internal_duplicates, result, filterVars, levelVars,
                   restVars>>

\* Lines 143-145: the full signature was accepted before.
Pass2SameSignature ==
    /\ pc = "pass2"
    /\ i <= Len(sorted_jobs)
    /\ LET job == sorted_jobs[i]
       IN  /\ ~SignatureRaises(job)
           /\ FullSignature(job) \in seen_job_signatures
           /\ internal_duplicates' = Append(internal_duplicates, Get1(job, "job_id"))
    /\ i' = i + 1
    /\ UNCHANGED <<pc, jobs, existing_ids, unique_jobs, duplicates, seen_ids,
                   sorted_jobs, final_unique_jobs, seen_job_signatures,
                   seen_job_content, result, error, filterVars, levelVars,
                   restVars>>

\* Lines 148-174: the posting accepted last under the base signature is similar.
Pass2Similar ==
    /\ pc = "pass2"
    /\ i <= Len(sorted_jobs)
    /\ LET job == sorted_jobs[i]
       IN  /\ ~SignatureRaises(job)
           /\ FullSignature(job) \notin seen_job_signatures
           /\ BaseSignature(job) \in DOMAIN seen_job_content
           /\ ~DescriptionRaises(job, seen_job_content[BaseSignature(job)])
           /\ IsDuplicate(job, seen_job_content[BaseSignature(job)])
           /\ internal_duplicates' = Append(internal_duplicates, Get1(job, "job_id"))
    /\ i' = i + 1
    /\ UNCHANGED <<pc, jobs, existing_ids, unique_jobs, duplicates, seen_ids,
                   sorted_jobs, final_unique_jobs, seen_job_signatures,
                   seen_job_content, result, error, filterVars, levelVars,
                   restVars>>

\* Lines 176-179.
Pass2Accept ==
    /\ pc = "pass2"
    /\ i <= Len(sorted_jobs)
    /\ LET job == sorted_jobs[i]
       IN  /\ ~SignatureRaises(job)
           /\ FullSignature(job) \notin seen_job_signatures
           /\ \/ BaseSignature(job) \notin DOMAIN seen_job_content
              \/ /\ BaseSignature(job) \in DOMAIN seen_job_content
                 /\ ~DescriptionRaises(job, seen_job_content[BaseSignature(job)])
                 /\ ~IsDuplicate(job, seen_job_content[BaseSignature(job)])
           /\ final_unique_jobs' = Append(final_unique_jobs, job)
           /\ seen_job_signatures' = seen_job_signatures \cup {FullSignature(job)}
           /\ seen_job_content' =
                  RecordContent(seen_job_content, BaseSignature(job), job)
    /\ i' = i + 1
    /\ UNCHANGED <<pc, jobs, existing_ids, unique_jobs, duplicates, seen_ids,
                   sorted_jobs, internal_duplicates, result, error, filterVars, levelVars,
                   restVars>>

\* Line 197.
DedupReturn ==
    /\ pc = "pass2"
    /\ i > Len(sorted_jobs)
    /\ pc' = "done"
    /\ result' = final_unique_jobs
    /\ UNCHANGED <<jobs, existing_ids, i, unique_jobs, duplicates, seen_ids,
                   sorted_jobs, final_unique_jobs, seen_job_signatures,
                   seen_job_content, internal_duplicates, error, filterVars, levelVars,
                   restVars>>

RECURSIVE Pass1(_, _, _)
\* Lines 106-116 as a function: the postings of batch from index k on whose
\* id is not in seen, each id taken once.
Pass1(batch, k, seen) ==
    IF k > Len(batch) THEN <<>>
    ELSE IF IsNewId(Get1(batch[k], "job_id"), seen)
         THEN <<batch[k]>> \o
                  Pass1(batch, k + 1, AddSeenId(seen, Get1(batch[k], "job_id")))
         ELSE Pass1(batch, k + 1, seen)

RECURSIVE Pass2(_, _, _, _, _)
\* Lines 132-179 as a function: the walk over sorted from index k on, with
\* the postings accepted so far, their full signatures and the map from base
\* signature to the posting accepted last.
Pass2(sorted, k, accepted, signatures, content) ==
    IF k > Len(sorted) THEN [error |-> NoError, jobs |-> accepted]
    ELSE IF SignatureRaises(sorted[k])
         THEN [error |-> AttributeError, jobs |-> <<>>]
    ELSE IF FullSignature(sorted[k]) \in signatures
         THEN Pass2(sorted, k + 1, accepted, signatures, content)
    ELSE IF /\ BaseSignature(sorted[k]) \in DOMAIN content
            /\ DescriptionRaises(sorted[k], content[BaseSignature(sorted[k])])
         THEN [error |-> AttributeError, jobs |-> <<>>]
    ELSE IF /\ BaseSignature(sorted[k]) \in DOMAIN content
            /\ IsDuplicate(sorted[k], content[BaseSignature(sorted[k])])
         THEN Pass2(sorted, k + 1, accepted, signatures, content)
    ELSE Pass2(sorted, k + 1, Append(accepted, sorted[k]),
               signatures \cup {FullSignature(sorted[k])},
               RecordContent(content, BaseSignature(sorted[k]), sorted[k]))

\* deduplicate_jobs(jobs, existing_ids) as a function of its arguments: the
\* list returned, or the exception raised.
deduplicate_jobs(batch, ids) ==
    IF batch = <<>> THEN [error |-> NoError, jobs |-> <<>>]
    ELSE IF SortRaises(Pass1(batch, 1, InitialSeenIds(ids)))
         THEN [error |-> TypeError, jobs |-> <<>>]
    ELSE Pass2(SortedDesc(Pass1(batch, 1, InitialSeenIds(ids))), 1, <<>>, {}, <<>>)

----------------------------------------------------------------------------
(* The batches deduplicate_jobs is run on *)

\* The longest batch handed to deduplicate_jobs.
MaxBatch == 3

\* The longest batch handed to filter_recent_jobs, and its largest horizon.
MaxFilterBatch == 2
MaxDays == 3

\* The most phrases in a description handed to determine_experience_level.
MaxPhrases == 3

\* A posting record as HeadHunterAPI.format_job_data builds it, with the keys
\* deduplicate_jobs and filter_recent_jobs read.  A number (a salary bound)
\* is written by its decimal digits.
Job(id, company, title, location, desc, salary, posted_at) ==
    [job_id |-> id, company |-> company, title |-> title,
     location |-> location, description |-> desc,
     salary_from |-> salary[1], salary_to |-> salary[2],
     salary_currency |-> salary[3], posted_at |-> posted_at]

Id1 == <<"1">>
Id2 == <<"2">>
Id3 == <<"3">>

Acme == <<"A","c","m","e">>
AcmeSpaced == <<" ","a","c","m","e">>
SkyproSchool == <<"S","k","y","p","r","o"," ","S","c","h","o","o","l">>
Dev == <<"D","e","v">>
DevShouted == <<"D","E","V"," ">>
Tester == <<"T","e","s","t","e","r">>
Moscow == <<"M","o","s","c","o","w">>
MoscowSpaced == <<"m","o","s","c","o","w"," ">>
SPB == <<"S","P","B">>
Kazan == <<"K","a","z","a","n">>

\* Descriptions longer than DescSliceLen: DescA and DescSamePrefix agree on
\* their first 100 characters only, DescA and DescSameSuffix on their last 100
\* only (and only when case is ignored), DescOther agrees with none.
DescA == Rep("a", DescSliceLen + 1)
DescSamePrefix == Rep("a", DescSliceLen) \o <<"b">>
DescSameSuffix == <<"c">> \o Rep("A", DescSliceLen)
DescOther == Rep("d", DescSliceLen + 1)
DescShort == <<"o","k">>

SalaryUSD == <<<<"1","0","0","0">>, <<"2","0","0","0">>, <<"U","S","D">>>>
SalaryRUB == <<<<"1","0","0","0">>, <<"2","0","0","0">>, <<"R","U","B">>>>
SalaryNone == <<None, None, None>>

Jan09 == <<"2","0","2","4","-","0","1","-","0","9","T","0","0",":","0","0",":","0","0","+","0","0",":","0","0">>
Jan10 == <<"2","0","2","4","-","0","1","-","1","0","T","0","0",":","0","0",":","0","0","+","0","0",":","0","0">>
Jan11 == <<"2","0","2","4","-","0","1","-","1","1","T","0","0",":","0","0",":","0","0","+","0","0",":","0","0">>

\* The postings batches are made of.
Pool ==
    { Job(Id1, Acme, Dev, Moscow, DescA, SalaryUSD, Jan10),
      Job(Id2, AcmeSpaced, DevShouted, MoscowSpaced, DescOther, SalaryRUB, Jan09),
      Job(Id2, Acme, Dev, SPB, DescSamePrefix, SalaryUSD, Jan09),
      Job(Id3, Acme, Dev, SPB, DescSameSuffix, SalaryUSD, Jan11),
      Job(Id2, Acme, Dev, Kazan, DescSameSuffix, SalaryRUB, Jan10),
      Job(Id3, Acme, Dev, Kazan, DescOther, SalaryUSD, Jan10),
      Job(Id1, SkyproSchool, Dev, Moscow, DescA, SalaryUSD, Jan09),
      Job(Id2, SkyproSchool, Dev, SPB, DescSamePrefix, SalaryRUB, Jan10),
      Job(Id3, Acme, Tester, Moscow, DescShort, SalaryNone, Jan09),
      Job(Id3, Acme, Dev, SPB, <<>>, SalaryUSD, Absent),
      Job(Absent, Acme, Dev, Kazan, Absent, SalaryUSD, <<>>),
      Job(Id2, None, Dev, Moscow, DescA, SalaryUSD, Jan10),
      Job(Id3, Acme, Dev, SPB, None, SalaryUSD, Jan09),
      Job(Id1, Acme, Dev, Kazan, DescA, SalaryUSD, None) }

\* The batches: every sequence of at most MaxBatch postings of the pool.
Batches == UNION { [1..n -> Pool] : n \in 0..MaxBatch }

\* The known-id collections.
KnownIdSets == { {}, {Id1} }


----------------------------------------------------------------------------
(* filter_recent_jobs, utils.py lines 50-72 *)

SecondsPerDay == 86400

Digits == <<"0","1","2","3","4","5","6","7","8","9">>

IsDigit(c) == \E k \in 1..10 : Digits[k] = c

DigitValue(c) == (CHOOSE k \in 1..10 : Digits[k] = c) - 1

\* int() of the two decimal digits of s at a and a + 1.
TwoDigits(s, a) == 10 * DigitValue(s[a]) + DigitValue(s[a + 1])

AllDigits(s, a, b) == \A k \in a..b : IsDigit(s[k])

RECURSIVE ReplaceZ(_)
\* posted_at_str.replace('Z', '+00:00')
ReplaceZ(s) ==
    IF s = <<>> THEN <<>>
    ELSE (IF Head(s) = "Z" THEN <<"+","0","0",":","0","0">> ELSE <<Head(s)>>)
         \o ReplaceZ(Tail(s))

IsLeap(year) == year % 4 = 0 /\ (year % 100 # 0 \/ year % 400 = 0)

DaysInMonth(year, month) ==
    IF month = 2 THEN (IF IsLeap(year) THEN 29 ELSE 28)
    ELSE IF month \in {4, 6, 9, 11} THEN 30 ELSE 31

\* Days from 1970-01-01 to the given date of the proleptic Gregorian calendar.
DaysFromEpoch(year, month, day) ==
    LET y == IF month <= 2 THEN year - 1 ELSE year
        era == y \div 400
        yoe == y - era * 400
        mp == IF month > 2 THEN month - 3 ELSE month + 9
        doy == (153 * mp + 2) \div 5 + day - 1
        doe == yoe * 365 + yoe \div 4 - yoe \div 100 + doy
    IN  era * 146097 + doe - 719468

\* The date part YYYY-MM-DD at the head of s is well formed and names a day.
DateOk(s) ==
    /\ Len(s) >= 10
    /\ AllDigits(s, 1, 4) /\ s[5] = "-" /\ AllDigits(s, 6, 7)
    /\ s[8] = "-" /\ AllDigits(s, 9, 10)
    /\ LET year == 100 * TwoDigits(s, 1) + TwoDigits(s, 3)
           month == TwoDigits(s, 6)
           day == TwoDigits(s, 9)
       IN  /\ year >= 1
           /\ month \in 1..12
           /\ day \in 1..DaysInMonth(year, month)

\* The time part HH:MM:SS of s at a .. a + 7.
TimeOk(s, a) ==
    /\ AllDigits(s, a, a + 1) /\ s[a + 2] = ":" /\ AllDigits(s, a + 3, a + 4)
    /\ s[a + 5] = ":" /\ AllDigits(s, a + 6, a + 7)
    /\ TwoDigits(s, a) <= 23
    /\ TwoDigits(s, a + 3) <= 59
    /\ TwoDigits(s, a + 6) <= 59

\* The UTC offset +HH:MM or -HH:MM of s at a .. a + 5.
OffsetOk(s, a) ==
    /\ s[a] \in {"+", "-"}
    /\ AllDigits(s, a + 1, a + 2) /\ s[a + 3] = ":" /\ AllDigits(s, a + 4, a + 5)
    /\ TwoDigits(s, a + 1) <= 23
    /\ TwoDigits(s, a + 4) <= 59

\* datetime.fromisoformat(s) for the forms YYYY-MM-DD, YYYY-MM-DD*HH:MM:SS and
\* YYYY-MM-DD*HH:MM:SS+HH:MM (* any one character): ok is FALSE for
\* ValueError; aware says whether the datetime carries a UTC offset; t is the
\* instant in seconds since 1970-01-01T00:00:00 (UTC when aware, wall clock
\* when naive).
FromIsoFormat(s) ==
    LET wellFormed ==
            /\ DateOk(s)
            /\ \/ Len(s) = 10
               \/ Len(s) = 19 /\ TimeOk(s, 12)
               \/ Len(s) = 25 /\ TimeOk(s, 12) /\ OffsetOk(s, 20)
    IN  IF ~wellFormed THEN [ok |-> FALSE, aware |-> FALSE, t |-> 0]
        ELSE LET date == DaysFromEpoch(100 * TwoDigits(s, 1) + TwoDigits(s, 3),
                                       TwoDigits(s, 6), TwoDigits(s, 9))
                 time == IF Len(s) = 10 THEN 0
                         ELSE 3600 * TwoDigits(s, 12) + 60 * TwoDigits(s, 15)
                              + TwoDigits(s, 18)
                 offset == IF Len(s) < 25 THEN 0
                           ELSE (IF s[20] = "-" THEN -1 ELSE 1)
                                * (3600 * TwoDigits(s, 21) + 60 * TwoDigits(s, 24))
             IN  [ok |-> TRUE, aware |-> Len(s) = 25,
                  t |-> date * SecondsPerDay + time - offset]

\* Line 65.
ParsePostedAt(posted_at_str) == FromIsoFormat(ReplaceZ(posted_at_str))

\* Line 59.
PostedAtStr(job) == Get(job, "posted_at", <<>>)

\* A comparison that drops a posting stamped exactly at the cutoff.
AtOrAfterStrict(posted_at, cutoff) == posted_at > cutoff

\* Line 66: posted_at >= cutoff_date.
AtOrAfter(posted_at, cutoff) == posted_at >= cutoff

\* A cutoff that lies days after the current instant instead of before it.
CutoffDateForward(instant, horizon) == instant + horizon * SecondsPerDay

\* Line 54: datetime.now(timezone.utc) - timedelta(days=days).
CutoffDate(instant, horizon) == instant - horizon * SecondsPerDay

\* Lines 54-56.
FilterStart ==
    /\ pc = "start"
    /\ cutoff_date' = CutoffDate(now, days)
    /\ filtered_jobs' = <<>>
    /\ i' = 1
    /\ pc' = "loop"
    /\ UNCHANGED <<jobs, days, now, earlier, result, error, dedupVars, levelVars,
                   restVars>>

\* Lines 59-61: no posted_at, or an empty one, or None.
FilterSkipEmpty ==
    /\ pc = "loop"
    /\ i <= Len(jobs)
    /\ ~Truthy(PostedAtStr(jobs[i]))
    /\ i' = i + 1
    /\ UNCHANGED <<pc, jobs, days, now, cutoff_date, filtered_jobs, earlier,
                   result, error, dedupVars, levelVars,
                   restVars>>

\* Lines 68-70: fromisoformat raised ValueError.
FilterSkipInvalid ==
    /\ pc = "loop"
    /\ i <= Len(jobs)
    /\ Truthy(PostedAtStr(jobs[i]))
    /\ ~ParsePostedAt(PostedAtStr(jobs[i])).ok
    /\ i' = i + 1
    /\ UNCHANGED <<pc, jobs, days, now, cutoff_date, filtered_jobs, earlier,
                   result, error, dedupVars, levelVars,
                   restVars>>

\* Lines 66-67, for a datetime with an offset: kept when at or after the cutoff.
FilterCompare ==
    /\ pc = "loop"
    /\ i <= Len(jobs)
    /\ Truthy(PostedAtStr(jobs[i]))
    /\ LET posted_at == ParsePostedAt(PostedAtStr(jobs[i]))
       IN  /\ posted_at.ok
           /\ posted_at.aware
           /\ filtered_jobs' =
                  IF AtOrAfter(posted_at.t, cutoff_date)
                  THEN Append(filtered_jobs, jobs[i])
                  ELSE filtered_jobs
    /\ i' = i + 1
    /\ UNCHANGED <<pc, jobs, days, now, cutoff_date, earlier, result, error,
                   dedupVars, levelVars,
                   restVars>>

\* Line 66, for a datetime without an offset: comparing it with the aware
\* cutoff raises TypeError, which line 68 does not catch.
FilterRaise ==
    /\ pc = "loop"
    /\ i <= Len(jobs)
    /\ Truthy(PostedAtStr(jobs[i]))
    /\ LET posted_at == ParsePostedAt(PostedAtStr(jobs[i]))
       IN  posted_at.ok /\ ~posted_at.aware
    /\ pc' = "raised"
    /\ error' = TypeError
    /\ UNCHANGED <<jobs, i, days, now, cutoff_date, filtered_jobs, earlier,
                   result, dedupVars, levelVars,
                   restVars>>

\* Line 72.
FilterReturn ==
    /\ pc = "loop"
    /\ i > Len(jobs)
    /\ pc' = "done"
    /\ result' = filtered_jobs
    /\ UNCHANGED <<jobs, i, days, now, cutoff_date, filtered_jobs, earlier,
                   error, dedupVars, levelVars,
                   restVars>>

\* The caller calls filter_recent_jobs once more, on the same batch at the
\* same instant, with a horizon of its choice.
FilterAgain ==
    /\ pc \in {"done", "raised"}
    /\ earlier = <<>>
    /\ earlier' = <<[days |-> days, returned |-> pc = "done", result |-> result]>>
    /\ \E d \in 0..MaxDays : days' = d
    /\ pc' = "start"
    /\ i' = 1
    /\ filtered_jobs' = <<>>
    /\ result' = <<>>
    /\ error' = NoError
    /\ UNCHANGED <<jobs, now, cutoff_date, dedupVars, levelVars,
                   restVars>>

\* The posted_at values of the batches handed to filter_recent_jobs.
Jan07Z == <<"2","0","2","4","-","0","1","-","0","7","T","0","0",":","0","0",":","0","0","Z">>
Jan06Z == <<"2","0","2","4","-","0","1","-","0","6","T","0","0",":","0","0",":","0","0","Z">>
Jan07Plus3 == <<"2","0","2","4","-","0","1","-","0","7","T","0","2",":","5","9",":","5","9","+","0","3",":","0","0">>
Jan09Naive == <<"2","0","2","4","-","0","1","-","0","9","T","0","0",":","0","0",":","0","0">>
Feb30Z == <<"2","0","2","4","-","0","2","-","3","0","T","0","0",":","0","0",":","0","0","Z">>

PostedAtValues ==
    { Jan07Z, Jan06Z, Jan10, Jan07Plus3, Jan09Naive, Feb30Z, <<>>, Absent, None }

FilterPool ==
    { Job(Id1, Acme, Dev, Moscow, DescShort, SalaryNone, p) : p \in PostedAtValues }

FilterBatches == UNION { [1..n -> FilterPool] : n \in 0..MaxFilterBatch }

\* The instants at which filter_recent_jobs reads the clock: midnight of
\* 2024-01-10 (UTC) and the second after it.
Instants == { FromIsoFormat(Jan10).t, FromIsoFormat(Jan10).t + 1 }


----------------------------------------------------------------------------
(* determine_experience_level and parse_experience_years,
   utils.py lines 17-48 and 220-232; EXPERIENCE_LEVELS, config.py lines 15-29.
   A Cyrillic letter is written by its code point; the comments give the
   keyword in Latin letters. *)

EXPERIENCE_LEVELS ==
    [junior |-> <<
           <<"j","u","n","i","o","r">>,
           <<"u043c","u043b","u0430","u0434","u0448","u0438","u0439">>,   \* mladshiy
           <<"u043d","u0430","u0447","u0438","u043d","u0430","u044e","u0449","u0438","u0439">>,   \* nachinayushchiy
           <<"u0441","u0442","u0430","u0436","u0435","u0440">>,   \* stazher
           <<"u0431","u0435","u0437"," ","u043e","u043f","u044b","u0442","u0430">>,   \* bez opyta
           <<"i","n","t","e","r","n">>,
           <<"e","n","t","r","y"," ","l","e","v","e","l">>,
           <<"e","n","t","r","y","-","l","e","v","e","l">>,
           <<"0","-","1"," ","y","e","a","r">>,
           <<"0","-","1"," ","u0433","u043e","u0434","u0430">>,   \* 0-1 goda
           <<"s","t","u","d","e","n","t">>,
           <<"u0441","u0442","u0443","u0434","u0435","u043d","u0442">>   \* student (Cyrillic)
           >>,
     middle |-> <<
           <<"m","i","d","d","l","e">>,
           <<"u043c","u0438","u0434","u0434","u043b">>,   \* middl
           <<"u043e","u043f","u044b","u0442"," ","u043e","u0442"," ","2">>,   \* opyt ot 2
           <<"u043e","u043f","u044b","u0442"," ","u043e","u0442"," ","3">>,   \* opyt ot 3
           <<"2","+"," ","y","e","a","r","s">>,
           <<"3","+"," ","y","e","a","r","s">>,
           <<"2","-","3"," ","u0433","u043e","u0434","u0430">>,   \* 2-3 goda
           <<"3","-","5"," ","u043b","u0435","u0442">>,   \* 3-5 let
           <<"u043e","u043f","u044b","u0442","u043d","u044b","u0439">>,   \* opytnyy
           <<"e","x","p","e","r","i","e","n","c","e","d">> >>,
     senior |-> <<
           <<"s","e","n","i","o","r">>,
           <<"u0441","u0442","u0430","u0440","u0448","u0438","u0439">>,   \* starshiy
           <<"u0432","u0435","u0434","u0443","u0449","u0438","u0439">>,   \* vedushchiy
           <<"l","e","a","d">>,
           <<"u043e","u043f","u044b","u0442"," ","u043e","u0442"," ","5">>,   \* opyt ot 5
           <<"u043e","u043f","u044b","u0442"," ","u043e","u0442"," ","6">>,   \* opyt ot 6
           <<"5","+"," ","y","e","a","r","s">>,
           <<"6","+"," ","y","e","a","r","s">>,
           <<"5","-","7"," ","u043b","u0435","u0442">>,   \* 5-7 let
           <<"u0430","u0440","u0445","u0438","u0442","u0435","u043a","u0442","u043e","u0440">>,   \* arkhitektor
           <<"t","e","a","m"," ","l","e","a","d">>,
           <<"u0442","u0438","u043c","u043b","u0438","u0434">>,   \* timlid
           <<"t","e","c","h"," ","l","e","a","d">>,
           <<"p","r","i","n","c","i","p","a","l">>,
           <<"u044d","u043a","u0441","u043f","u0435","u0440","u0442">>   \* ekspert
           >>]

\* The number of places at which needle occurs in haystack.
Occurrences(haystack, needle) ==
    Cardinality({a \in 0..(Len(haystack) - Len(needle)) :
                    SubSeq(haystack, a + 1, a + Len(needle)) = needle})

RECURSIVE OccurrenceSum(_, _, _)
OccurrenceSum(keywords, desc_lower, n) ==
    IF n = 0 THEN 0
    ELSE OccurrenceSum(keywords, desc_lower, n - 1)
         + Occurrences(desc_lower, keywords[n])

\* A score that counts every occurrence of a keyword.
KeywordScoreOccurrences(keywords, desc_lower) ==
    OccurrenceSum(keywords, desc_lower, Len(keywords))

\* sum(1 for keyword in keywords if keyword in desc_lower)
KeywordScore(keywords, desc_lower) ==
    Cardinality({k \in 1..Len(keywords) : Contains(desc_lower, keywords[k])})

\* The words of the two patterns of parse_experience_years.
God == <<"u0433","u043e","u0434">>
Let == <<"u043b","u0435","u0442">>
Goda == <<"u0433","u043e","u0434","u0430">>
Opyt == <<"u043e","u043f","u044b","u0442">>
Raboty == <<"u0440","u0430","u0431","u043e","u0442","u044b">>

\* text[a:] starts with word, ignoring case (re.IGNORECASE); word is lowercase.
StartsWith(text, a, word) ==
    /\ a + Len(word) - 1 <= Len(text)
    /\ Lower(SubSeq(text, a, a + Len(word) - 1)) = word

\* The index behind the whitespace that starts at a (\s*).
SkipSpaces(text, a) ==
    CHOOSE b \in a..(Len(text) + 1) :
        /\ \A k \in a..(b - 1) : IsSpace(text[k])
        /\ b = Len(text) + 1 \/ ~IsSpace(text[b])

\* The last index of the digits that start at a (\d+).
DigitRunEnd(text, a) ==
    CHOOSE e \in a..Len(text) :
        /\ AllDigits(text, a, e)
        /\ e = Len(text) \/ ~IsDigit(text[e + 1])

RECURSIVE IntOf(_)
\* int(match.group(1))
IntOf(digits) ==
    IF digits = <<>> THEN 0
    ELSE 10 * IntOf(SubSeq(digits, 1, Len(digits) - 1))
         + DigitValue(digits[Len(digits)])

\* [\+]?\s*(?:год|лет|года) matches at a.
YearsTail(text, a) ==
    LET b == IF a <= Len(text) /\ text[a] = "+" THEN a + 1 ELSE a
        c == SkipSpaces(text, b)
    IN  \/ StartsWith(text, c, God)
        \/ StartsWith(text, c, Let)
        \/ StartsWith(text, c, Goda)

\* (\d+)[\+]?\s*(?:год|лет|года)(?:\s+опыта)? matches at a.
Pattern1At(text, a) ==
    /\ IsDigit(text[a])
    /\ YearsTail(text, DigitRunEnd(text, a) + 1)

\* The index of the digits of a match at a of
\* опыт\s+(?:работы\s+)?(\d+)[\+]?\s*(?:год|лет|года), 0 when there is none.
Pattern2Digits(text, a) ==
    IF ~(StartsWith(text, a, Opyt) /\ a + Len(Opyt) <= Len(text)
           /\ IsSpace(text[a + Len(Opyt)]))
    THEN 0
    ELSE LET b == SkipSpaces(text, a + Len(Opyt))
             c == IF /\ StartsWith(text, b, Raboty)
                     /\ b + Len(Raboty) <= Len(text)
                     /\ IsSpace(text[b + Len(Raboty)])
                  THEN SkipSpaces(text, b + Len(Raboty))
                  ELSE b
         IN  IF c <= Len(text) /\ Pattern1At(text, c) THEN c ELSE 0

Pattern2At(text, a) == Pattern2Digits(text, a) # 0

\* The first index at which re.search finds a match of the first pattern,
\* 0 when there is none.
FirstMatch1(text) ==
    IF \E a \in 1..Len(text) : Pattern1At(text, a)
    THEN CHOOSE a \in 1..Len(text) :
             Pattern1At(text, a) /\ \A b \in 1..(a - 1) : ~Pattern1At(text, b)
    ELSE 0

\* The same for the second pattern.
FirstMatch2(text) ==
    IF \E a \in 1..Len(text) : Pattern2At(text, a)
    THEN CHOOSE a \in 1..Len(text) :
             Pattern2At(text, a) /\ \A b \in 1..(a - 1) : ~Pattern2At(text, b)
    ELSE 0

\* Lines 227-232: the first pattern that matches decides.
parse_experience_years(text) ==
    LET first == FirstMatch1(text)
        second == FirstMatch2(text)
    IN  IF first # 0
        THEN IntOf(SubSeq(text, first, DigitRunEnd(text, first)))
        ELSE IF second # 0
        THEN LET d == Pattern2Digits(text, second)
             IN  IntOf(SubSeq(text, d, DigitRunEnd(text, d)))
        ELSE 0

\* A decision that gives senior its ties.
LevelOfTiesToSenior(junior, middle, senior) ==
    IF senior >= middle /\ senior >= junior THEN "senior"
    ELSE IF middle > junior THEN "middle"
    ELSE "junior"

\* A decision whose fallback is middle.
LevelOfDefaultMiddle(junior, middle, senior) ==
    IF senior > middle /\ senior > junior THEN "senior"
    ELSE "middle"

\* Lines 43-48.
LevelOf(junior, middle, senior) ==
    IF senior > middle /\ senior > junior THEN "senior"
    ELSE IF middle > junior THEN "middle"
    ELSE "junior"

\* Lines 22-30.
LevelCount ==
    /\ pc = "start"
    /\ LET desc_lower == Lower(description)
       IN  /\ junior_score' = KeywordScore(EXPERIENCE_LEVELS.junior, desc_lower)
           /\ middle_score' = KeywordScore(EXPERIENCE_LEVELS.middle, desc_lower)
           /\ senior_score' = KeywordScore(EXPERIENCE_LEVELS.senior, desc_lower)
    /\ pc' = "years"
    /\ UNCHANGED <<description, years, level, jobs, i, result, error,
                   dedupVars, filterVars,
                   restVars>>

\* A bonus whose bands end one year early.
YearsBonusEarlyBands(y, band) ==
    IF y <= 0 THEN 0
    ELSE IF y < 2 THEN (IF band = "junior" THEN 2 ELSE 0)
    ELSE IF y < 5 THEN (IF band = "middle" THEN 2 ELSE 0)
    ELSE (IF band = "senior" THEN 2 ELSE 0)

\* Lines 34-40: what the years add to the score of one level.
YearsBonus(y, band) ==
    IF ~(y > 0) THEN 0
    ELSE IF y <= 2 THEN (IF band = "junior" THEN 2 ELSE 0)
    ELSE IF y <= 5 THEN (IF band = "middle" THEN 2 ELSE 0)
    ELSE (IF band = "senior" THEN 2 ELSE 0)

\* Lines 33-40.
LevelYears ==
    /\ pc = "years"
    /\ years' = parse_experience_years(description)
    /\ junior_score' = junior_score + YearsBonus(years', "junior")
    /\ middle_score' = middle_score + YearsBonus(years', "middle")
    /\ senior_score' = senior_score + YearsBonus(years', "senior")
    /\ pc' = "decide"
    /\ UNCHANGED <<description, level, jobs, i, result, error, dedupVars,
                   filterVars,
                   restVars>>

\* Lines 43-48.
LevelDecide ==
    /\ pc = "decide"
    /\ level' = LevelOf(junior_score, middle_score, senior_score)
    /\ pc' = "done"
    /\ UNCHANGED <<description, junior_score, middle_score, senior_score,
                   years, jobs, i, result, error, dedupVars, filterVars,
                   restVars>>

\* The descriptions handed to determine_experience_level: at most MaxPhrases
\* of these phrases, joined by single spaces.
Phrases ==
    { <<"j","u","n","i","o","r">>, <<"I","n","t","e","r","n">>, <<"m","i","d","d","l","e">>, <<"e","x","p","e","r","i","e","n","c","e","d">>, <<"s","e","n","i","o","r">>, <<"t","e","a","m"," ","l","e","a","d">>,
      <<"1"," ","u0433","u043e","u0434">>, <<"3"," ","u0433","u043e","u0434","u0430">>, <<"7"," ","u043b","u0435","u0442">>, <<"p","y","t","h","o","n">>,
      <<"0"," ","u043b","u0435","u0442">>, <<"2"," ","u0433","u043e","u0434","u0430">>, <<"5"," ","u043b","u0435","u0442">>, <<"6"," ","u043b","u0435","u0442">> }

RECURSIVE Join(_)
Join(phrases) ==
    IF phrases = <<>> THEN <<>>
    ELSE IF Len(phrases) = 1 THEN phrases[1]
    ELSE phrases[1] \o <<" ">> \o Join(Tail(phrases))

Descriptions ==
    { Join(ps) : ps \in UNION { [1..n -> Phrases] : n \in 0..MaxPhrases } }

----------------------------------------------------------------------------
(* clean_job_description (src/src/utils.py, lines 7-15) *)

\* The place of the first ">" of s at or after a, 0 when there is none.
FirstGt(s, a) ==
    IF \E k \in a..Len(s) : s[k] = ">"
    THEN CHOOSE k \in a..Len(s) :
             s[k] = ">" /\ \A m \in a..(k - 1) : s[m] # ">"
    ELSE 0

RECURSIVE RemoveTags(_)
\* Line 10: re.sub(r'<[^>]+>', '', description).  A match starts at a "<",
\* takes one or more characters other than ">" and ends at the next ">".
RemoveTags(s) ==
    IF s = <<>> THEN <<>>
    ELSE IF s[1] = "<" /\ FirstGt(s, 2) >= 3
         THEN RemoveTags(SubSeq(s, FirstGt(s, 2) + 1, Len(s)))
         ELSE <<s[1]>> \o RemoveTags(Tail(s))

RECURSIVE JoinSplitFrom(_, _)
\* Of a run of whitespace the first character becomes one blank when a word
\* stands before the run and a word follows it; the rest is dropped.
JoinSplitFrom(s, k) ==
    IF k > Len(s) THEN <<>>
    ELSE IF ~IsSpace(s[k]) THEN <<s[k]>> \o JoinSplitFrom(s, k + 1)
    ELSE IF /\ k > 1
            /\ ~IsSpace(s[k - 1])
            /\ \E m \in (k + 1)..Len(s) : ~IsSpace(s[m])
         THEN <<" ">> \o JoinSplitFrom(s, k + 1)
         ELSE JoinSplitFrom(s, k + 1)

\* Line 12: ' '.join(description.split()).
JoinSplit(s) == JoinSplitFrom(s, 1)

\* \w: a letter, a digit or the underscore.
IsWordChar(c) ==
    \/ \E k \in 1..Len(UpperChars) : UpperChars[k] = c
    \/ \E k \in 1..Len(LowerChars) : LowerChars[k] = c
    \/ \E k \in 1..Len(CyrillicUpper) : CyrillicUpper[k] = c
    \/ \E k \in 1..Len(CyrillicLower) : CyrillicLower[k] = c
    \/ IsDigit(c)
    \/ c = "_"

\* A character line 14 leaves in place: not matched by [^\w\s\-.,].
IsPlain(c) == IsWordChar(c) \/ IsSpace(c) \/ c \in {"-", ".", ","}

\* Line 14: re.sub(r'[^\w\s\-.,]', '', description).
RemoveSpecial(s) == SelectSeq(s, IsPlain)

\* Line 10.
CleanTags ==
    /\ pc = "start"
    /\ description' = RemoveTags(description)
    /\ pc' = "spaces"
    /\ UNCHANGED <<jobs, i, result, error, junior_score, middle_score,
                   senior_score, years, level, dedupVars, filterVars, restVars>>

\* Line 12.
CleanSpaces ==
    /\ pc = "spaces"
    /\ description' = JoinSplit(description)
    /\ pc' = "special"
    /\ UNCHANGED <<jobs, i, result, error, junior_score, middle_score,
                   senior_score, years, level, dedupVars, filterVars, restVars>>

\* Lines 14-15.
CleanSpecial ==
    /\ pc = "special"
    /\ description' = RemoveSpecial(description)
    /\ result' = description'
    /\ pc' = "done"
    /\ UNCHANGED <<jobs, i, error, junior_score, middle_score, senior_score,
                   years, level, dedupVars, filterVars, restVars>>

\* The caller hands the string it got back to clean_job_description again.
CleanAgain ==
    /\ pc = "done"
    /\ earlier = <<>>
    /\ earlier' = <<[raw_description |-> raw_description, result |-> result]>>
    /\ raw_description' = result
    /\ description' = result
    /\ result' = <<>>
    /\ pc' = "start"
    /\ UNCHANGED <<jobs, i, error, junior_score, middle_score, senior_score,
                   years, level, dedupVars, days, now, cutoff_date,
                   filtered_jobs, currency, values, sheet, moreVars>>

\* The strings handed to clean_job_description: at most MaxCleanLen of these
\* characters.
MaxCleanLen == 5

CleanChars == {"a", " ", "\n", "<", ">", "!"}

RawDescriptions == UNION { [1..n -> CleanChars] : n \in 0..MaxCleanLen }

----------------------------------------------------------------------------
(* normalize_currency (src/src/utils.py, lines 79-85) *)

\* A conversion that ignores the case of the code.
normalize_currency_any_case(code) ==
    IF IsStr(code) /\ Lower(code) = <<"r","u","r">>
    THEN <<"R","U","B">>
    ELSE code

\* Lines 83-85.
normalize_currency(code) ==
    IF code = <<"R","U","R">> THEN <<"R","U","B">> ELSE code

\* Lines 79-85.
NormalizeCurrency ==
    /\ pc = "start"
    /\ result' = normalize_currency(currency)
    /\ pc' = "done"
    /\ UNCHANGED <<jobs, i, error, dedupVars, filterVars, levelVars, restVars>>

\* The caller hands the code it got back to normalize_currency again.
CurrencyAgain ==
    /\ pc = "done"
    /\ earlier = <<>>
    /\ earlier' = <<[currency |-> currency, result |-> result]>>
    /\ currency' = result
    /\ result' = <<>>
    /\ pc' = "start"
    /\ UNCHANGED <<jobs, i, error, dedupVars, days, now, cutoff_date,
                   filtered_jobs, levelVars, raw_description, values, sheet, moreVars>>

\* The codes handed to normalize_currency: no code (None) and the strings of
\* at most MaxCurrencyLen of these characters.
MaxCurrencyLen == 3

Currencies ==
    {None} \cup UNION { [1..n -> {"R", "U", "B", "r"}] : n \in 0..MaxCurrencyLen }

----------------------------------------------------------------------------
(* GoogleSheetsHandler.append_jobs (src/src/sheets_handler.py, lines 95-205)
   and validate_job_data (src/src/utils.py, lines 74-77) *)

\* A check that asks for job_id and title only.
validate_job_data_id_and_title(job) ==
    \A field \in {"job_id", "title"} : Truthy(Get1(job, field))

\* utils.py lines 76-77: all(job.get(field) for field in required_fields).
validate_job_data(job) ==
    \A field \in {"job_id", "title", "company", "description"} :
        Truthy(Get1(job, field))

\* Lines 128-141: the row of a posting.  str(None) is "None"; the description
\* is cut to 500 characters; a posting without posted_at gets the clock's
\* reading, here 2024-01-10T00:00:00+00:00.  The columns experience_level,
\* apply_url and processed_at are left out.
Row(job) ==
    LET Str(v) == IF v = None THEN <<"N","o","n","e">> ELSE v
    IN  [job_id |-> Str(Get(job, "job_id", <<>>)),
         title |-> Str(Get(job, "title", <<>>)),
         company |-> Str(Get(job, "company", <<>>)),
         location |-> Str(Get(job, "location", <<>>)),
         description |-> Prefix(Str(Get(job, "description", <<>>)), 500),
         salary_from |-> Str(Get(job, "salary_from", <<>>)),
         salary_to |-> Str(Get(job, "salary_to", <<>>)),
         salary_currency |-> Str(Get(job, "salary_currency", <<>>)),
         posted_at |-> Get(job, "posted_at", Jan10)]

\* Lines 97-115: nothing to do for an empty batch; otherwise the known ids
\* are column A of the worksheet, or none when reading it failed
\* (get_existing_job_ids, lines 208-234), and deduplicate_jobs is called.
AppendStart ==
    /\ pc = "append"
    /\ IF jobs = <<>>
       THEN pc' = "returned" /\ UNCHANGED existing_ids
       ELSE /\ pc' = "start"
            /\ existing_ids' \in
                   { { sheet[k].job_id : k \in 1..Len(sheet) }, {} }
    /\ UNCHANGED <<jobs, i, unique_jobs, duplicates, seen_ids, sorted_jobs,
                   final_unique_jobs, seen_job_signatures, seen_job_content,
                   internal_duplicates, result, error, filterVars, levelVars,
                   restVars>>

\* Lines 117-118: deduplicate_jobs has returned.
AppendValues ==
    /\ pc = "done"
    /\ values' = <<>>
    /\ i' = 1
    /\ pc' = "rows"
    /\ UNCHANGED <<jobs, result, error, dedupVars, filterVars, levelVars,
                   raw_description, currency, sheet, moreVars>>

\* Lines 118-142, one iteration.
AppendRow ==
    /\ pc = "rows"
    /\ i <= Len(result)
    /\ values' = IF validate_job_data(result[i])
                 THEN Append(values, Row(result[i]))
                 ELSE values
    /\ i' = i + 1
    /\ UNCHANGED <<pc, jobs, result, error, dedupVars, filterVars, levelVars,
                   raw_description, currency, sheet, moreVars>>

\* Lines 152-199: no rows, no write; otherwise the rows are appended, or the
\* request fails and the error is raised again.
AppendWrite ==
    /\ pc = "rows"
    /\ i > Len(result)
    /\ \/ /\ sheet' = sheet \o values
          /\ pc' = "returned"
          /\ UNCHANGED error
       \/ /\ values # <<>>
          /\ pc' = "raised"
          /\ error' = "HttpError"
          /\ UNCHANGED sheet
    /\ UNCHANGED <<jobs, i, result, dedupVars, filterVars, levelVars,
                   raw_description, currency, values, moreVars>>

\* The postings handed to append_jobs: two that are complete, and one for
\* each way of lacking a required field.
AppendPool ==
    { Job(Id1, Acme, Dev, Moscow, DescShort, SalaryUSD, Jan10),
      Job(Id2, AcmeSpaced, DevShouted, MoscowSpaced, DescA, SalaryRUB, Jan09),
      Job(Absent, Acme, Dev, Kazan, DescShort, SalaryUSD, Jan09),
      Job(<<>>, SkyproSchool, Dev, Kazan, DescOther, SalaryUSD, Jan11),
      Job(Id3, Acme, <<>>, Moscow, DescShort, SalaryNone, Jan11),
      Job(Id3, <<>>, Tester, Moscow, DescShort, SalaryNone, Absent),
      Job(Id3, SkyproSchool, Tester, SPB, Absent, SalaryRUB, Jan10),
      Job(Id2, SkyproSchool, Dev, SPB, None, SalaryRUB, Jan11),
      Job(Id3, Acme, Absent, SPB, <<>>, SalaryUSD, Jan09) }

----------------------------------------------------------------------------
(* The pipeline: JobSearchTelegramBot.perform_job_search
   (src/src/telegram_bot.py, lines 219-254) and main (src/src/main.py, lines
   110-142), from the filtered batch on, with the append_jobs they call.  An
   invocation touches the worksheet three times: it reads the ids, reads
   the rows, and, inside append_jobs, reads the ids again and appends.
   What it computes between two of these it computes on its own data, so a
   step here is one access to the worksheet and the computation after it. *)

\* The most postings in a batch of the pipeline when the invocations follow
\* one another and when they overlap, and the most rows the worksheet is let
\* grow to.
MaxSearchBatch == 2
MaxOverlapBatch == 1
MaxRows == 2

\* The invocations that may be under way at once: the scheduled one
\* (lambda_function.py, line 58) and a /search command (telegram_bot.py,
\* line 84).
Runs == {"scheduled", "search"}

\* A read that skips a header row the rows do not have, and so misses the
\* id of the first row.
StoredIdsSkipFirst(rows) == { rows[k].job_id : k \in 2..Len(rows) }

\* get_existing_job_ids, sheets_handler.py lines 211-226: column A of the
\* rows below the header.
StoredIds(rows) == { rows[k].job_id : k \in 1..Len(rows) }

\* get_existing_job_data, sheets_handler.py lines 241-273: for each id the
\* columns of its last row, title, company and location lowercased and
\* stripped.
StoredData(rows) ==
    [id \in StoredIds(rows) |->
        LET row == rows[CHOOSE k \in 1..Len(rows) :
                            /\ rows[k].job_id = id
                            /\ \A m \in (k + 1)..Len(rows) : rows[m].job_id # id]
        IN  [title |-> Strip(Lower(row.title)),
             company |-> Strip(Lower(row.company)),
             location |-> Strip(Lower(row.location)),
             description |-> row.description,
             salary_from |-> row.salary_from,
             salary_to |-> row.salary_to,
             salary_currency |-> row.salary_currency]]

\* A deduplication that also drops a posting whose company, title and
\* location are those of a stored row.
SearchDeduplicateAgainstStored(recent, ids, data) ==
    LET fresh(job) ==
            \A id \in DOMAIN data :
                \/ data[id].company # Normalized(job, "company")
                \/ data[id].title # Normalized(job, "title")
                \/ data[id].location # Normalized(job, "location")
        deduplicated == deduplicate_jobs(recent, ids)
    IN  [error |-> deduplicated.error,
         jobs |-> SelectSeq(deduplicated.jobs, fresh)]

\* telegram_bot.py line 233, main.py line 124: deduplicate_jobs is handed
\* the batch and the ids; existing_job_data is not passed on.
SearchDeduplicate(recent, ids, data) == deduplicate_jobs(recent, ids)

\* An invocation that is not under way.
IdleRun ==
    [pc |-> "idle", recent_jobs |-> <<>>, existing_ids |-> {},
     new_jobs |-> <<>>, append_ids |-> {}, new_jobs_found |-> 0,
     rows_written |-> 0]

\* The postings the pipeline's batches are made of: a complete posting; a
\* newer one of the same company, title and location without a description;
\* one under a third id with the first one's company, title, description
\* and salary; and one whose employer name is missing (hh_jobs.py line 199
\* stores None).
SearchPool ==
    { Job(Id1, Acme, Dev, Moscow, DescShort, SalaryUSD, Jan10),
      Job(Id2, Acme, Dev, Moscow, <<>>, SalaryUSD, Jan11),
      Job(Id3, Acme, Dev, SPB, DescShort, SalaryUSD, Jan09),
      Job(Id3, None, Dev, Kazan, DescShort, SalaryNone, Jan10) }

\* telegram_bot.py lines 219-220, main.py lines 110-111: the invocation
\* has its batch of recent postings, of at most longest postings.
SearchStart(r, longest) ==
    /\ runs[r].pc = "idle"
    /\ \E batch \in UNION { [1..n -> SearchPool] : n \in 0..longest } :
           runs' = [runs EXCEPT ![r] = [IdleRun EXCEPT !.pc = "ids",
                                                       !.recent_jobs = batch]]
    /\ UNCHANGED <<pc, jobs, i, result, error, dedupVars, filterVars, levelVars,
                   raw_description, currency, values, sheet, read_failed,
                   requestVars, event>>

\* telegram_bot.py line 223, main.py line 114: get_existing_job_ids gives
\* the stored ids, or the empty list when the request failed
\* (sheets_handler.py lines 228-234).
SearchReadIds(r) ==
    /\ runs[r].pc = "ids"
    /\ \/ /\ runs' = [runs EXCEPT ![r].pc = "dedup",
                                  ![r].existing_ids = StoredIds(sheet)]
          /\ UNCHANGED read_failed
       \/ /\ runs' = [runs EXCEPT ![r].pc = "dedup", ![r].existing_ids = {}]
          /\ read_failed' = TRUE
    /\ UNCHANGED <<pc, jobs, i, result, error, dedupVars, filterVars, levelVars,
                   raw_description, currency, values, sheet,
                   requestVars, event>>

\* telegram_bot.py lines 224-254, main.py lines 115-142: the stored rows are
\* read (or nothing, when the request failed), the batch is deduplicated
\* against the ids, and the invocation ends when deduplicate_jobs raised or
\* left nothing.  What an invocation that has ended leaves behind is its
\* outcome and what it reported.
SearchDedup(r) ==
    /\ runs[r].pc = "dedup"
    /\ \E data \in {StoredData(sheet), <<>>} :
           LET deduplicated ==
                   SearchDeduplicate(runs[r].recent_jobs, runs[r].existing_ids, data)
           IN  runs' = [runs EXCEPT ![r] =
                   IF deduplicated.error # NoError
                   THEN [IdleRun EXCEPT !.pc = "raised"]
                   ELSE IF deduplicated.jobs = <<>>
                   THEN [IdleRun EXCEPT !.pc = "returned"]
                   ELSE [runs[r] EXCEPT !.pc = "append",
                                        !.new_jobs = deduplicated.jobs]]
    /\ UNCHANGED <<pc, jobs, i, result, error, dedupVars, filterVars, levelVars,
                   raw_description, currency, values, sheet, read_failed,
                   requestVars, event>>

\* append_jobs, sheets_handler.py line 114: the stored ids are read again.
SearchAppendRead(r) ==
    /\ runs[r].pc = "append"
    /\ \/ /\ runs' = [runs EXCEPT ![r].pc = "write",
                                  ![r].append_ids = StoredIds(sheet)]
          /\ UNCHANGED read_failed
       \/ /\ runs' = [runs EXCEPT ![r].pc = "write", ![r].append_ids = {}]
          /\ read_failed' = TRUE
    /\ UNCHANGED <<pc, jobs, i, result, error, dedupVars, filterVars, levelVars,
                   raw_description, currency, values, sheet,
                   requestVars, event>>

\* append_jobs, sheets_handler.py lines 115-206, and the return of
\* telegram_bot.py lines 239-243: the new postings are deduplicated against
\* the ids just read, the valid ones become rows, and the rows, if any, are
\* appended in one request, which may fail; the invocation reports the
\* number of new postings.
SearchAppendWrite(r) ==
    /\ runs[r].pc = "write"
    /\ LET unique == deduplicate_jobs(runs[r].new_jobs, runs[r].append_ids)
           valid == SelectSeq(unique.jobs, validate_job_data)
           rows == [k \in 1..Len(valid) |-> Row(valid[k])]
       IN  \/ /\ unique.error = NoError
              /\ Len(sheet) + Len(rows) <= MaxRows
              /\ sheet' = sheet \o rows
              /\ runs' = [runs EXCEPT ![r] =
                     [IdleRun EXCEPT !.pc = "returned",
                                     !.rows_written = Len(rows),
                                     !.new_jobs_found = Len(runs[r].new_jobs)]]
           \/ /\ unique.error # NoError \/ rows # <<>>
              /\ runs' = [runs EXCEPT ![r] = [IdleRun EXCEPT !.pc = "raised"]]
              /\ UNCHANGED sheet
    /\ UNCHANGED <<pc, jobs, i, result, error, dedupVars, filterVars, levelVars,
                   raw_description, currency, values, read_failed,
                   requestVars, event>>

\* The trigger fires or the command is sent once more.
SearchAgain(r) ==
    /\ runs[r].pc \in {"returned", "raised"}
    /\ runs' = [runs EXCEPT ![r] = IdleRun]
    /\ UNCHANGED <<pc, jobs, i, result, error, dedupVars, filterVars, levelVars,
                   raw_description, currency, values, sheet, read_failed,
                   requestVars, event>>

SearchStep(r, longest) ==
    \/ SearchStart(r, longest)
    \/ SearchReadIds(r)
    \/ SearchDedup(r)
    \/ SearchAppendRead(r)
    \/ SearchAppendWrite(r)
    \/ SearchAgain(r)

----------------------------------------------------------------------------
(* HeadHunterAPI._make_request, hh_jobs.py lines 18-86 *)

\* hh_jobs.py lines 15 and 16.
request_delay == 2
max_retries == 3

\* hh_jobs.py line 56: a search text longer than this is cut to its first
\* word after a 400.
SimplifyLen == 50

\* The params argument: whether a dict was passed, the keys the dict has,
\* and the value under "text".
NoParams == [given |-> FALSE, keys |-> {}, text |-> <<>>]

Params(keys, text) == [given |-> TRUE, keys |-> keys, text |-> text]

\* Python's truth value of params.
ParamsTruthy(p) == p.given /\ p.keys # {}

\* s.split()[0]: the first run of characters that are not whitespace;
\* Absent when there is none (Python raises IndexError).
FirstWord(s) ==
    IF \A k \in 1..Len(s) : IsSpace(s[k])
    THEN Absent
    ELSE LET a == CHOOSE k \in 1..Len(s) :
                      ~IsSpace(s[k]) /\ \A m \in 1..(k - 1) : IsSpace(s[m])
             b == CHOOSE k \in a..Len(s) :
                      /\ \A m \in a..k : ~IsSpace(s[m])
                      /\ k = Len(s) \/ IsSpace(s[k + 1])
         IN  SubSeq(s, a, b)

\* hh_jobs.py lines 56-58 raise when the long text is blank.
SimplifyRaises(p) ==
    /\ ParamsTruthy(p)
    /\ "text" \in p.keys
    /\ Len(p.text) > SimplifyLen
    /\ FirstWord(p.text) = Absent

\* hh_jobs.py lines 56-62: what a 400 leaves of the parameters.
SimplifiedParams(p) ==
    IF ~ParamsTruthy(p)
    THEN p
    ELSE [p EXCEPT !.text = IF "text" \in p.keys /\ Len(@) > SimplifyLen
                            THEN FirstWord(@)
                            ELSE @,
                   !.keys = @ \ {"date_from", "period"}]

\* A delay that grows by request_delay with each retry.
BackoffLinear(n) == request_delay * (n + 1)

\* hh_jobs.py line 23: the delay slept before the attempt made after n
\* retries.
Backoff(n) == request_delay * (2 ^ n)

\* What _make_request returns when it gives up, and what it returns of a
\* response.
EmptyItems == <<"items", "[]">>
ResponseJson == <<"response.json()">>

IndexError == "IndexError"

\* What an HTTP request can come to: a response with a JSON body, a 403, a
\* 400, another error status (raise_for_status raises), an exception of
\* requests.get, and a 200 whose body is not JSON.
Outcomes == {"200", "403", "400", "500", "exception", "unparsable"}

\* hh_jobs.py lines 21-23: the loop is entered and the delay is slept.
RequestSleep ==
    /\ pc = "while"
    /\ retries < max_retries
    /\ slept' = Append(slept, Backoff(retries))
    /\ pc' = "get"
    /\ UNCHANGED <<jobs, i, result, error, dedupVars, filterVars, levelVars,
                   raw_description, currency, values, sheet, runs, read_failed,
                   params, retries, attempts, event>>

\* hh_jobs.py lines 68-77: a request exception ends the call with the empty
\* result on the last attempt, and counts a retry before.
RequestFailed ==
    IF retries = max_retries - 1
    THEN pc' = "returned" /\ result' = EmptyItems /\ UNCHANGED <<retries, error>>
    ELSE pc' = "while" /\ retries' = retries + 1 /\ UNCHANGED <<result, error>>

\* hh_jobs.py lines 32-77: the request is sent and its outcome handled.  A
\* body that is not JSON makes response.json() raise: a request exception
\* with a requests library that derives its JSONDecodeError from
\* RequestException, a ValueError that leaves the function with one that
\* does not.
RequestGet ==
    /\ pc = "get"
    /\ \E outcome \in Outcomes :
           /\ attempts' = Append(attempts, outcome)
           /\ CASE outcome = "200" ->
                       /\ pc' = "returned"
                       /\ result' = ResponseJson
                       /\ UNCHANGED <<params, retries, error>>
                [] outcome = "403" ->
                       /\ pc' = "while"
                       /\ retries' = retries + 1
                       /\ UNCHANGED <<params, result, error>>
                [] outcome = "400" ->
                       IF SimplifyRaises(params)
                       THEN /\ pc' = "raised"
                            /\ error' = IndexError
                            /\ UNCHANGED <<params, retries, result>>
                       ELSE /\ pc' = "while"
                            /\ params' = SimplifiedParams(params)
                            /\ retries' = retries + 1
                            /\ UNCHANGED <<result, error>>
                [] outcome \in {"500", "exception"} ->
                       RequestFailed /\ UNCHANGED params
                [] outcome = "unparsable" ->
                       \/ RequestFailed /\ UNCHANGED params
                       \/ /\ pc' = "raised"
                          /\ error' = ValueError
                          /\ UNCHANGED <<params, retries, result>>
    /\ UNCHANGED <<jobs, i, dedupVars, filterVars, levelVars,
                   raw_description, currency, values, sheet, runs, read_failed,
                   slept, event>>

\* hh_jobs.py lines 21 and 79-86: the retries are used up.
RequestExhausted ==
    /\ pc = "while"
    /\ retries >= max_retries
    /\ pc' = "returned"
    /\ result' = EmptyItems
    /\ UNCHANGED <<jobs, i, error, dedupVars, filterVars, levelVars,
                   raw_description, currency, values, sheet, runs, read_failed,
                   requestVars, event>>

----------------------------------------------------------------------------
(* lambda_handler, lambda_function.py lines 30-78 *)

\* The event the runtime hands over is the invocation's JSON payload: an
\* object, or an array, a string, a number or null.  has_body is what
\* 'body' in event gives for an object, an array and a string; body and
\* source are what an object holds under those keys.
Event(type, has_body, body, source) ==
    [type |-> type, has_body |-> has_body, body |-> body, source |-> source]

\* What event['body'] can hold: an update with a message text, an update
\* whose message has no text, an update without a message, an update whose
\* message is null, a JSON array, text that is not JSON, and None.
Bodies ==
    {"message_text", "message_no_text", "no_message", "message_null", "array",
     "not_json", "None"}

Sources == {"aws.events", "aws.s3", "Absent"}

\* lambda_function.py line 34, 'body' in event: a number and null are not
\* containers.
InRaises(e) == e.type \in {"int", "NoneType"}

\* lambda_function.py line 35, event['body']: an array and a string take
\* no string index.
SubscriptRaises(e) == e.type \in {"list", "str"}

\* lambda_function.py lines 49 and 73, event.get: only an object has it.
GetRaises(e) == e.type # "dict"

\* lambda_function.py lines 35-40: json.loads(event['body']) and the chain
\* body.get('message', {}).get('text', 'unknown') on what it gives.
LoadsError(body) ==
    CASE body = "None" -> TypeError
      [] body = "not_json" -> ValueError
      [] body \in {"array", "message_null"} -> AttributeError
      [] OTHER -> NoError

\* What process_telegram_update and scheduled_job_search, run by
\* asyncio.run, can end with: nothing, or an exception.
RuntimeError == "RuntimeError"
ProcessingErrors == {NoError, RuntimeError}

\* lambda_function.py lines 32-34: the try block is entered and the event is
\* tested for a body.
LambdaTest ==
    /\ pc = "handler"
    /\ IF InRaises(event)
       THEN pc' = "except" /\ error' = TypeError
       ELSE IF event.has_body
            THEN pc' = "loads" /\ UNCHANGED error
            ELSE pc' = "source" /\ UNCHANGED error
    /\ UNCHANGED <<jobs, i, result, dedupVars, filterVars, levelVars, restVars>>

\* lambda_function.py lines 35-40: the body is read, parsed and logged.
LambdaLoads ==
    /\ pc = "loads"
    /\ IF SubscriptRaises(event)
       THEN pc' = "except" /\ error' = TypeError
       ELSE IF LoadsError(event.body) # NoError
            THEN pc' = "except" /\ error' = LoadsError(event.body)
            ELSE pc' = "update" /\ UNCHANGED error
    /\ UNCHANGED <<jobs, i, result, dedupVars, filterVars, levelVars, restVars>>

\* lambda_function.py lines 43-48: the update is processed and 200 returned.
LambdaUpdate ==
    /\ pc = "update"
    /\ \E raised \in ProcessingErrors :
           IF raised # NoError
           THEN pc' = "except" /\ error' = raised /\ UNCHANGED result
           ELSE pc' = "returned" /\ result' = 200 /\ UNCHANGED error
    /\ UNCHANGED <<jobs, i, dedupVars, filterVars, levelVars, restVars>>

\* lambda_function.py lines 49 and 65-68: an event without a body is tested
\* for its source; one that is not scheduled gets 400.
LambdaSource ==
    /\ pc = "source"
    /\ IF GetRaises(event)
       THEN pc' = "except" /\ error' = AttributeError /\ UNCHANGED result
       ELSE IF event.source = "aws.events"
            THEN pc' = "scheduled" /\ UNCHANGED <<result, error>>
            ELSE pc' = "returned" /\ result' = 400 /\ UNCHANGED error
    /\ UNCHANGED <<jobs, i, dedupVars, filterVars, levelVars, restVars>>

\* lambda_function.py lines 50-63: the scheduled search is run and 200
\* returned.
LambdaScheduled ==
    /\ pc = "scheduled"
    /\ \E raised \in ProcessingErrors :
           IF raised # NoError
           THEN pc' = "except" /\ error' = raised /\ UNCHANGED result
           ELSE pc' = "returned" /\ result' = 200 /\ UNCHANGED error
    /\ UNCHANGED <<jobs, i, dedupVars, filterVars, levelVars, restVars>>

\* lambda_function.py lines 69-78: the exception is logged with
\* event.get('source', 'unknown') and 500 returned; when the event has no
\* get, the AttributeError raised inside the handler leaves the function.
LambdaExcept ==
    /\ pc = "except"
    /\ IF GetRaises(event)
       THEN pc' = "raised" /\ error' = AttributeError /\ UNCHANGED result
       ELSE pc' = "returned" /\ result' = 500 /\ UNCHANGED error
    /\ UNCHANGED <<jobs, i, dedupVars, filterVars, levelVars, restVars>>

----------------------------------------------------------------------------
(* The functions, each run on its own inputs *)

DedupIdle ==
    /\ existing_ids = {}
    /\ unique_jobs = <<>>
    /\ duplicates = <<>>
    /\ seen_ids = {}
    /\ sorted_jobs = <<>>
    /\ final_unique_jobs = <<>>
    /\ seen_job_signatures = {}
    /\ seen_job_content = <<>>
    /\ internal_duplicates = <<>>

FilterIdle ==
    /\ days = 0
    /\ now = 0
    /\ cutoff_date = 0
    /\ filtered_jobs = <<>>
    /\ earlier = <<>>

MoreIdle ==
    /\ runs = <<>>
    /\ read_failed = FALSE
    /\ params = NoParams
    /\ retries = 0
    /\ slept = <<>>
    /\ attempts = <<>>
    /\ event = None

RestIdle ==
    /\ raw_description = <<>>
    /\ currency = None
    /\ values = <<>>
    /\ sheet = <<>>
    /\ MoreIdle

LevelIdle ==
    /\ description = <<>>
    /\ junior_score = 0
    /\ middle_score = 0
    /\ senior_score = 0
    /\ years = 0
    /\ level = "none"

InitDedup ==
    /\ pc = "start"
    /\ jobs \in Batches
    /\ existing_ids \in KnownIdSets
    /\ i = 1
    /\ unique_jobs = <<>>
    /\ duplicates = <<>>
    /\ seen_ids = {}
    /\ sorted_jobs = <<>>
    /\ final_unique_jobs = <<>>
    /\ seen_job_signatures = {}
    /\ seen_job_content = <<>>
    /\ internal_duplicates = <<>>
    /\ result = <<>>
    /\ error = NoError
    /\ FilterIdle
    /\ LevelIdle
    /\ RestIdle

NextDedup ==
    \/ DedupStart
    \/ Pass1Step
    \/ SortStep
    \/ Pass2Raise
    \/ Pass2SameSignature
    \/ Pass2Similar
    \/ Pass2Accept
    \/ DedupReturn

SpecDedup == InitDedup /\ [][NextDedup]_vars

InitFilter ==
    /\ pc = "start"
    /\ jobs \in FilterBatches
    /\ days \in 0..MaxDays
    /\ now \in Instants
    /\ cutoff_date = 0
    /\ filtered_jobs = <<>>
    /\ earlier = <<>>
    /\ i = 1
    /\ result = <<>>
    /\ error = NoError
    /\ DedupIdle
    /\ LevelIdle
    /\ RestIdle

NextFilter ==
    \/ FilterStart
    \/ FilterSkipEmpty
    \/ FilterSkipInvalid
    \/ FilterCompare
    \/ FilterRaise
    \/ FilterReturn
    \/ FilterAgain

SpecFilter == InitFilter /\ [][NextFilter]_vars

\* Either function, run on its own inputs: the runs of filter_recent_jobs
\* are those in which the clock was read.
NextFrame ==
    \/ now = 0 /\ NextDedup
    \/ now # 0 /\ NextFilter

SpecFrame == (InitDedup \/ InitFilter) /\ [][NextFrame]_vars

InitLevel ==
    /\ pc = "start"
    /\ description \in Descriptions
    /\ junior_score = 0
    /\ middle_score = 0
    /\ senior_score = 0
    /\ years = 0
    /\ level = "none"
    /\ jobs = <<>>
    /\ i = 1
    /\ result = <<>>
    /\ error = NoError
    /\ DedupIdle
    /\ FilterIdle
    /\ RestIdle

NextLevel ==
    \/ LevelCount
    \/ LevelYears
    \/ LevelDecide

SpecLevel == InitLevel /\ [][NextLevel]_vars

InitClean ==
    /\ pc = "start"
    /\ raw_description \in RawDescriptions
    /\ description = raw_description
    /\ currency = None
    /\ values = <<>>
    /\ sheet = <<>>
    /\ junior_score = 0
    /\ middle_score = 0
    /\ senior_score = 0
    /\ years = 0
    /\ level = "none"
    /\ jobs = <<>>
    /\ i = 1
    /\ result = <<>>
    /\ error = NoError
    /\ DedupIdle
    /\ FilterIdle
    /\ MoreIdle

NextClean ==
    \/ CleanTags
    \/ CleanSpaces
    \/ CleanSpecial
    \/ CleanAgain

SpecClean == InitClean /\ [][NextClean]_vars

InitCurrency ==
    /\ pc = "start"
    /\ currency \in Currencies
    /\ raw_description = <<>>
    /\ values = <<>>
    /\ sheet = <<>>
    /\ jobs = <<>>
    /\ i = 1
    /\ result = <<>>
    /\ error = NoError
    /\ DedupIdle
    /\ FilterIdle
    /\ LevelIdle
    /\ MoreIdle

NextCurrency ==
    \/ NormalizeCurrency
    \/ CurrencyAgain

SpecCurrency == InitCurrency /\ [][NextCurrency]_vars

InitAppend ==
    /\ pc = "append"
    /\ jobs \in UNION { [1..n -> AppendPool] : n \in 0..MaxBatch }
    /\ sheet \in { <<>>, <<Row(Job(Id1, Acme, Dev, Moscow, DescShort, SalaryUSD, Jan10))>> }
    /\ values = <<>>
    /\ raw_description = <<>>
    /\ currency = None
    /\ i = 1
    /\ result = <<>>
    /\ error = NoError
    /\ DedupIdle
    /\ FilterIdle
    /\ LevelIdle
    /\ MoreIdle

NextAppend ==
    \/ AppendStart
    \/ NextDedup
    \/ AppendValues
    \/ AppendRow
    \/ AppendWrite

SpecAppend == InitAppend /\ [][NextAppend]_vars

\* Postings whose company, title or location holds a hyphen, so that
\* different fields give one signature string: "a-b" and "c" against "a" and
\* "b-c" (one base signature), and "a", "b", "c-d" against "a", "b-c", "d"
\* (one full signature); with them two postings without a hyphen and one
\* without a title.
HyphenPool ==
    { Job(Id1, <<"a","-","b">>, <<"c">>, Moscow, DescShort, SalaryUSD, Jan10),
      Job(Id2, <<"a">>, <<"b","-","c">>, Moscow, DescOther, SalaryRUB, Jan09),
      Job(Id3, <<"a">>, <<"b","-","c">>, SPB, DescShort, SalaryUSD, Jan09),
      Job(Id1, <<"a">>, <<"b">>, <<"c","-","d">>, DescA, SalaryUSD, Jan11),
      Job(Id2, <<"a">>, <<"b","-","c">>, <<"d">>, DescOther, SalaryRUB, Jan10),
      Job(Id3, Acme, Dev, Kazan, DescA, SalaryUSD, Jan10),
      Job(Id2, Acme, Dev, SPB, DescSamePrefix, SalaryUSD, Jan09),
      Job(Id3, Acme, None, Moscow, DescShort, SalaryNone, Jan09) }

InitHyphen ==
    /\ pc = "start"
    /\ jobs \in UNION { [1..n -> HyphenPool] : n \in 0..MaxBatch }
    /\ existing_ids \in KnownIdSets
    /\ i = 1
    /\ unique_jobs = <<>>
    /\ duplicates = <<>>
    /\ seen_ids = {}
    /\ sorted_jobs = <<>>
    /\ final_unique_jobs = <<>>
    /\ seen_job_signatures = {}
    /\ seen_job_content = <<>>
    /\ internal_duplicates = <<>>
    /\ result = <<>>
    /\ error = NoError
    /\ FilterIdle
    /\ LevelIdle
    /\ RestIdle

SpecHyphen == InitHyphen /\ [][NextDedup]_vars

InitSearch ==
    /\ pc = "pipeline"
    /\ runs = [r \in Runs |-> IdleRun]
    /\ read_failed = FALSE
    /\ sheet = <<>>
    /\ raw_description = <<>>
    /\ currency = None
    /\ values = <<>>
    /\ params = NoParams
    /\ retries = 0
    /\ slept = <<>>
    /\ attempts = <<>>
    /\ event = None
    /\ jobs = <<>>
    /\ i = 1
    /\ result = <<>>
    /\ error = NoError
    /\ DedupIdle
    /\ FilterIdle
    /\ LevelIdle

\* The invocations one after another: one takes a step only while no other
\* is under way.
NextSerial ==
    \E r \in Runs :
        /\ \A o \in Runs \ {r} : runs[o].pc \in {"idle", "returned", "raised"}
        /\ SearchStep(r, MaxSearchBatch)

SpecSerial == InitSearch /\ [][NextSerial]_vars

\* The invocations overlapping: nothing in the code makes one wait for the
\* other.
NextOverlap == \E r \in Runs : SearchStep(r, MaxOverlapBatch)

SpecOverlap == InitSearch /\ [][NextOverlap]_vars

\* The search texts search_jobs builds from its keywords (lines 103-119):
\* words separated by spaces, up to 100 characters; one of at most
\* SimplifyLen characters, one of exactly SimplifyLen, one longer.
SearchTexts ==
    { <<"P", "y", "t", "h", "o", "n">> \o <<" ">> \o Rep("d", n) :
          n \in {9, SimplifyLen - 7, SimplifyLen} }

\* The parameters _make_request is called with: none by get_job_details
\* (line 164), the search parameters by search_jobs (lines 121-138).
RequestPool ==
    {NoParams}
        \cup { Params({"text", "per_page", "only_with_salary", "order_by",
                       "period"} \cup area, text) :
                   text \in SearchTexts, area \in {{}, {"area"}} }

InitRequest ==
    /\ pc = "while"
    /\ params \in RequestPool
    /\ retries = 0
    /\ slept = <<>>
    /\ attempts = <<>>
    /\ runs = <<>>
    /\ read_failed = FALSE
    /\ event = None
    /\ sheet = <<>>
    /\ raw_description = <<>>
    /\ currency = None
    /\ values = <<>>
    /\ jobs = <<>>
    /\ i = 1
    /\ result = <<>>
    /\ error = NoError
    /\ DedupIdle
    /\ FilterIdle
    /\ LevelIdle

NextRequest ==
    \/ RequestSleep
    \/ RequestGet
    \/ RequestExhausted

\* The call keeps running until it returns or raises.
SpecRequest == InitRequest /\ [][NextRequest]_vars /\ WF_vars(NextRequest)

\* The events: objects with and without a body and a source, and the
\* payloads that are no objects.
Events ==
    { Event("dict", TRUE, body, source) : body \in Bodies, source \in Sources }
        \cup { Event("dict", FALSE, "Absent", source) : source \in Sources }
        \cup { Event(type, has_body, "Absent", "Absent") :
                   type \in {"list", "str"}, has_body \in BOOLEAN }
        \cup { Event(type, FALSE, "Absent", "Absent") : type \in {"int", "NoneType"} }

InitLambda ==
    /\ pc = "handler"
    /\ event \in Events
    /\ result = 0
    /\ error = NoError
    /\ runs = <<>>
    /\ read_failed = FALSE
    /\ params = NoParams
    /\ retries = 0
    /\ slept = <<>>
    /\ attempts = <<>>
    /\ sheet = <<>>
    /\ raw_description = <<>>
    /\ currency = None
    /\ values = <<>>
    /\ jobs = <<>>
    /\ i = 1
    /\ DedupIdle
    /\ FilterIdle
    /\ LevelIdle

NextLambda ==
    \/ LambdaTest
    \/ LambdaLoads
    \/ LambdaUpdate
    \/ LambdaSource
    \/ LambdaScheduled
    \/ LambdaExcept

SpecLambda == InitLambda /\ [][NextLambda]_vars

----------------------------------------------------------------------------
(* Claims about deduplicate_jobs, checked under SpecDedup *)

JobId(job) == Get1(job, "job_id")

\* A field lowercased and trimmed, a missing one being the empty string.
TrimLower(job, field) ==
    Strip(Lower(IF job[field] = Absent THEN <<>> ELSE job[field]))

SameBase(a, b) ==
    /\ TrimLower(a, "company") = TrimLower(b, "company")
    /\ TrimLower(a, "title") = TrimLower(b, "title")

SameTriple(a, b) ==
    SameBase(a, b) /\ TrimLower(a, "location") = TrimLower(b, "location")

SameSalary(a, b) ==
    \A f \in {"salary_from", "salary_to", "salary_currency"} :
        Get1(a, f) = Get1(b, f)

\* The posted_at a posting is ordered by: a missing one is the empty string.
RawPostedAt(job) == IF job.posted_at = Absent THEN <<>> ELSE job.posted_at

\* The text of a description, a missing one being the empty string.
DescText(job) == IF job.description = Absent THEN <<>> ELSE job.description

\* The first 100 or the last 100 characters agree when case is ignored.
SlicesAgree(a, b) ==
    \/ Lower(Prefix(DescText(a), 100)) = Lower(Prefix(DescText(b), 100))
    \/ Lower(Suffix(DescText(a), 100)) = Lower(Suffix(DescText(b), 100))

\* A batch of exactly two postings with distinct ids that are not known.
TwoUnknownPostings ==
    /\ Len(jobs) = 2
    /\ JobId(jobs[1]) # JobId(jobs[2])
    /\ JobId(jobs[1]) \notin existing_ids
    /\ JobId(jobs[2]) \notin existing_ids

\* C1: the list deduplicate_jobs returns holds no posting whose job_id is
\* among the known ids and no two postings with the same job_id.
C1_NoKnownNoRepeatedId ==
    pc = "done" =>
        /\ \A k \in 1..Len(result) : JobId(result[k]) \notin existing_ids
        /\ \A k, m \in 1..Len(result) :
               k # m => JobId(result[k]) # JobId(result[m])

\* A returned call whose batch held a known id and, twice, an unknown one.
C1_Witness ==
    /\ pc = "done"
    /\ result # <<>>
    /\ \E k \in 1..Len(jobs) : JobId(jobs[k]) \in existing_ids
    /\ \E k, m \in 1..Len(jobs) :
           /\ k < m
           /\ JobId(jobs[k]) = JobId(jobs[m])
           /\ JobId(jobs[k]) \notin existing_ids
           /\ jobs[k] # jobs[m]

\* C2: no two postings of the returned list have the same (company, title,
\* location) after lowercasing and trimming each field; a batch of exactly
\* two such postings with different unknown ids yields exactly one posting.
C2_NoRepeatedFullSignature ==
    pc = "done" =>
        /\ \A k, m \in 1..Len(result) :
               k # m => ~SameTriple(result[k], result[m])
        /\ TwoUnknownPostings /\ SameTriple(jobs[1], jobs[2])
               => Len(result) = 1

\* Two postings that differ in case and blanks only, one of which is returned.
C2_Witness ==
    /\ pc = "done"
    /\ TwoUnknownPostings
    /\ SameTriple(jobs[1], jobs[2])
    /\ jobs[1].company # jobs[2].company
    /\ jobs[1].title # jobs[2].title
    /\ jobs[1].location # jobs[2].location
    /\ Len(result) = 1

\* The two postings of C3: same company and title, different locations,
\* non-empty descriptions that agree on their first or last 100 characters,
\* the same salary triple.
C3_Pair ==
    /\ TwoUnknownPostings
    /\ SameBase(jobs[1], jobs[2])
    /\ jobs[1].location # jobs[2].location
    /\ DescText(jobs[1]) # <<>>
    /\ DescText(jobs[2]) # <<>>
    /\ SlicesAgree(jobs[1], jobs[2])
    /\ SameSalary(jobs[1], jobs[2])

\* C3: of the two postings of C3_Pair deduplicate_jobs returns exactly one,
\* the one whose posted_at is the greater.
C3_NewerOfSimilarPairSurvives ==
    pc = "done" /\ C3_Pair =>
        \E a, b \in 1..2 :
            /\ a # b
            /\ result = <<jobs[a]>>
            /\ ~StrLess(RawPostedAt(jobs[a]), RawPostedAt(jobs[b]))

\* The second posting of the batch is the newer one and is the one returned.
C3_Witness ==
    /\ pc = "done"
    /\ C3_Pair
    /\ StrLess(RawPostedAt(jobs[1]), RawPostedAt(jobs[2]))
    /\ TrimLower(jobs[1], "location") # TrimLower(jobs[2], "location")
    /\ result = <<jobs[2]>>

\* A step of pass 2 that handles the posting sorted_jobs[i] without raising.
Pass2Handled == pc = "pass2" /\ pc' = "pass2" /\ i' = i + 1

Pass2Discarded ==
    /\ final_unique_jobs' = final_unique_jobs
    /\ internal_duplicates' = Append(internal_duplicates, JobId(sorted_jobs[i]))

Pass2Accepted ==
    /\ final_unique_jobs' = Append(final_unique_jobs, sorted_jobs[i])
    /\ internal_duplicates' = internal_duplicates

\* The rule of C4 as the claim words it: two descriptions are similar when
\* their first or last 100 characters agree, a missing one being empty.
C4_RuleAsStated(job) ==
    \/ FullSignature(job) \in seen_job_signatures
    \/ /\ BaseSignature(job) \in DOMAIN seen_job_content
       /\ LET accepted == seen_job_content[BaseSignature(job)]
          IN  /\ SlicesAgree(job, accepted)
              /\ \/ SameSalary(job, accepted)
                 \/ Contains(TrimLower(job, "company"), Skypro)

\* The rule with the two descriptions required to be non-empty.
C4_RuleAmended(job) ==
    \/ FullSignature(job) \in seen_job_signatures
    \/ /\ BaseSignature(job) \in DOMAIN seen_job_content
       /\ LET accepted == seen_job_content[BaseSignature(job)]
          IN  /\ DescText(job) # <<>>
              /\ DescText(accepted) # <<>>
              /\ SlicesAgree(job, accepted)
              /\ \/ SameSalary(job, accepted)
                 \/ Contains(TrimLower(job, "company"), Skypro)

\* C4 as stated: pass 2 discards a posting exactly when its full signature is
\* recorded, or the posting accepted under its base signature has a similar
\* description (a missing one counting as empty) and the same salary triple
\* or a company containing "skypro"; it accepts every other posting.
C4_DiscardRuleAsStated ==
    [][Pass2Handled =>
          /\ Pass2Discarded <=> C4_RuleAsStated(sorted_jobs[i])
          /\ Pass2Accepted <=> ~C4_RuleAsStated(sorted_jobs[i])]_vars

\* C4 amended: the same, with description-similar holding only between two
\* non-empty descriptions, and the comparison made with the posting accepted
\* last under the base signature.
C4_DiscardRule ==
    [][Pass2Handled =>
          /\ Pass2Discarded <=> C4_RuleAmended(sorted_jobs[i])
          /\ Pass2Accepted <=> ~C4_RuleAmended(sorted_jobs[i])]_vars

\* Pass 2 has accepted two postings of one base signature and one salary
\* triple that both have an empty description.
C4_Witness ==
    /\ pc = "pass2"
    /\ Len(final_unique_jobs) = 2
    /\ SameBase(final_unique_jobs[1], final_unique_jobs[2])
    /\ SameSalary(final_unique_jobs[1], final_unique_jobs[2])
    /\ DescText(final_unique_jobs[1]) = <<>>
    /\ DescText(final_unique_jobs[2]) = <<>>

RECURSIVE FirstUnknown(_)
\* The postings among the first n of the batch whose job_id is not known and
\* is not the job_id of an earlier posting of the batch, in input order.
FirstUnknown(n) ==
    IF n = 0 THEN <<>>
    ELSE IF /\ JobId(jobs[n]) \notin existing_ids
            /\ \A m \in 1..(n - 1) : JobId(jobs[m]) # JobId(jobs[n])
         THEN Append(FirstUnknown(n - 1), jobs[n])
         ELSE FirstUnknown(n - 1)

\* C5: pass 1 walks the batch in input order and lets a posting into its
\* list exactly when its job_id is not known and is not the job_id of an
\* earlier posting of the batch.
C5_Pass1KeepsFirstUnknown ==
    /\ pc = "pass1" => unique_jobs = FirstUnknown(i - 1)
    /\ pc \in {"pass2", "done", "raised"} => unique_jobs = FirstUnknown(Len(jobs))

\* Pass 1 is over; of two different postings with one unknown id the first
\* went through and the second did not, and a posting with a known id did not.
C5_Witness ==
    /\ pc = "pass2"
    /\ \E k \in 1..Len(jobs) : JobId(jobs[k]) \in existing_ids
    /\ \E k, m \in 1..Len(jobs) :
           /\ k < m
           /\ JobId(jobs[k]) = JobId(jobs[m])
           /\ \E n \in 1..Len(unique_jobs) : unique_jobs[n] = jobs[k]
           /\ \A n \in 1..Len(unique_jobs) : unique_jobs[n] # jobs[m]

\* The place of a posting's first occurrence in the batch.
FirstIndex(job) ==
    CHOOSE k \in 1..Len(jobs) :
        jobs[k] = job /\ \A m \in 1..(k - 1) : jobs[m] # job

\* C6: the returned list is ordered by posted_at descending under string
\* comparison of the raw values, a missing posted_at counting as the empty
\* string, and postings with equal posted_at keep their input order.
C6_NewestFirstStable ==
    pc = "done" =>
        \A k, m \in 1..Len(result) :
            k < m =>
                /\ ~StrLess(RawPostedAt(result[k]), RawPostedAt(result[m]))
                /\ RawPostedAt(result[k]) = RawPostedAt(result[m])
                       => FirstIndex(result[k]) < FirstIndex(result[m])

\* Three postings are returned: two with one posted_at, then the one without
\* posted_at, which came first in the batch.
C6_Witness ==
    /\ pc = "done"
    /\ Len(result) = 3
    /\ RawPostedAt(result[1]) = RawPostedAt(result[2])
    /\ jobs[1].posted_at = Absent
    /\ result[3] = jobs[1]

----------------------------------------------------------------------------
(* Claims about filter_recent_jobs, checked under SpecFilter *)

\* posted_at is a string that parses as a timestamp with a UTC offset.
ParsesAsTimestamp(job) ==
    /\ IsStr(job.posted_at)
    /\ job.posted_at # <<>>
    /\ ParsePostedAt(job.posted_at).ok
    /\ ParsePostedAt(job.posted_at).aware

\* The instant a posting is stamped with, in seconds.
Stamp(job) == ParsePostedAt(job.posted_at).t

RECURSIVE RecentOf(_)
\* The postings among the first n of the batch that are stamped at or after
\* the current instant minus days days, in input order.
RecentOf(n) ==
    IF n = 0 THEN <<>>
    ELSE IF ParsesAsTimestamp(jobs[n]) /\ Stamp(jobs[n]) >= now - days * 86400
         THEN Append(RecentOf(n - 1), jobs[n])
         ELSE RecentOf(n - 1)

Returned(job, list) == \E k \in 1..Len(list) : list[k] = job

\* C7: filter_recent_jobs returns exactly the postings whose posted_at parses
\* as a timestamp at or after now - days, in their input order; with days = 3
\* and now = 2024-01-10T00:00:00Z a posting stamped 2024-01-07T00:00:00Z is
\* kept and one stamped 2024-01-06T00:00:00Z is dropped.
C7_ExactlyTheRecent ==
    /\ pc = "loop" => filtered_jobs = RecentOf(i - 1)
    /\ pc = "done" => result = RecentOf(Len(jobs))
    /\ pc = "done" /\ days = 3 /\ now = FromIsoFormat(Jan10).t =>
           \A k \in 1..Len(jobs) :
               /\ jobs[k].posted_at = Jan07Z => Returned(jobs[k], result)
               /\ jobs[k].posted_at = Jan06Z => ~Returned(jobs[k], result)

\* The call of the example has returned: the posting stamped at the cutoff
\* is kept, the one stamped a day earlier is dropped.
C7_Witness ==
    /\ pc = "done"
    /\ days = 3
    /\ now = FromIsoFormat(Jan10).t
    /\ Len(jobs) = 2
    /\ jobs[1].posted_at = Jan06Z
    /\ jobs[2].posted_at = Jan07Z
    /\ result = <<jobs[2]>>

\* C8: for one batch and one current instant, every posting that
\* filter_recent_jobs returns for d1 days it also returns for d2 >= d1 days.
C8_MonotonicInDays ==
    /\ pc \in {"done", "raised"}
    /\ earlier # <<>>
    /\ earlier[1].returned
    /\ earlier[1].days <= days
    => /\ pc = "done"
       /\ \A k \in 1..Len(earlier[1].result) :
              Returned(earlier[1].result[k], result)

\* The second call, with more days, has returned more than the first, which
\* returned something.
C8_Witness ==
    /\ pc = "done"
    /\ earlier # <<>>
    /\ earlier[1].returned
    /\ earlier[1].days < days
    /\ earlier[1].result # <<>>
    /\ Len(earlier[1].result) < Len(result)

\* C9: filter_recent_jobs never raises: a posting whose posted_at is absent,
\* empty, malformed or a date-time string without a UTC offset is skipped and
\* the rest of the batch is still filtered.
C9_NeverRaises ==
    /\ error = NoError
    /\ pc # "raised"

----------------------------------------------------------------------------
(* Claims about determine_experience_level, checked under SpecLevel *)

SeniorWins == senior_score > middle_score /\ senior_score > junior_score

MiddleWins == ~SeniorWins /\ middle_score > junior_score

\* C10: on the final scores determine_experience_level returns senior
\* exactly when senior exceeds both other scores, otherwise middle exactly
\* when middle exceeds junior, otherwise junior; so a tie for the top score
\* never gives senior and a junior/middle tie gives junior.
C10_DecisionRule ==
    pc = "done" =>
        /\ level = "senior" <=> SeniorWins
        /\ level = "middle" <=> MiddleWins
        /\ level = "junior" <=> ~SeniorWins /\ ~MiddleWins
        /\ senior_score = middle_score \/ senior_score = junior_score
               => level # "senior"
        /\ junior_score = middle_score /\ ~SeniorWins => level = "junior"

\* Senior ties with middle above junior, and the answer is middle.
C10_Witness ==
    /\ pc = "done"
    /\ senior_score = middle_score
    /\ senior_score > junior_score
    /\ level = "middle"

\* A step that adds the years bonus.
YearsAdded == pc = "years" /\ pc' = "decide"

\* C11: the extracted years y add exactly 2 to exactly one score when y > 0
\* (junior for 1 <= y <= 2, middle for 3 <= y <= 5, senior for y > 5) and
\* change no score when y = 0.
C11_YearsBonus ==
    [][YearsAdded =>
          LET dj == junior_score' - junior_score
              dm == middle_score' - middle_score
              ds == senior_score' - senior_score
          IN  /\ years' = 0 => dj = 0 /\ dm = 0 /\ ds = 0
              /\ years' >= 1 /\ years' <= 2 => dj = 2 /\ dm = 0 /\ ds = 0
              /\ years' >= 3 /\ years' <= 5 => dj = 0 /\ dm = 2 /\ ds = 0
              /\ years' > 5 => dj = 0 /\ dm = 0 /\ ds = 2]_vars

\* Five years were extracted from a description without a middle keyword,
\* and the middle score is the bonus alone.
C11_Witness ==
    /\ pc = "decide"
    /\ years = 5
    /\ middle_score = 2
    /\ junior_score = 0
    /\ senior_score = 0

\* The keywords of a level's list that occur in the lowercased text.
KeywordsPresent(band, text) ==
    LET lowered == Lower(text)
    IN  { kw \in { EXPERIENCE_LEVELS[band][k] :
                      k \in 1..Len(EXPERIENCE_LEVELS[band]) } :
              Contains(lowered, kw) }

NoKeyword(text) ==
    \A band \in {"junior", "middle", "senior"} : KeywordsPresent(band, text) = {}

\* C12: determine_experience_level returns exactly one of junior, middle and
\* senior for every description, and junior for the empty description and
\* for one that matches no keyword and no years phrase.
C12_AlwaysALabel ==
    pc = "done" =>
        /\ level \in {"junior", "middle", "senior"}
        /\ description = <<>> => level = "junior"
        /\ NoKeyword(description) /\ years = 0 => level = "junior"

\* A non-empty description without keyword or years was labelled junior.
C12_Witness ==
    /\ pc = "done"
    /\ description # <<>>
    /\ NoKeyword(description)
    /\ years = 0
    /\ level = "junior"

Reverse(seq) == [k \in 1..Len(seq) |-> seq[Len(seq) + 1 - k]]

\* The label of a text when each keyword list is given as lists[band].
LabelWith(lists, text) ==
    LET y == parse_experience_years(text)
    IN  LevelOf(KeywordScore(lists.junior, Lower(text)) + YearsBonus(y, "junior"),
                KeywordScore(lists.middle, Lower(text)) + YearsBonus(y, "middle"),
                KeywordScore(lists.senior, Lower(text)) + YearsBonus(y, "senior"))

ReversedLists ==
    [band \in DOMAIN EXPERIENCE_LEVELS |-> Reverse(EXPERIENCE_LEVELS[band])]

----------------------------------------------------------------------------
(* Claims about clean_job_description, checked under SpecClean *)

\* C14: the string clean_job_description returns holds neither "<" nor ">"
\* and no two whitespace characters in a row; the empty string is returned
\* for the empty string.
C14_NoTagNoWhitespaceRun ==
    pc = "done" =>
        /\ \A k \in 1..Len(result) : result[k] # "<" /\ result[k] # ">"
        /\ \A k \in 1..(Len(result) - 1) :
               ~(IsSpace(result[k]) /\ IsSpace(result[k + 1]))
        /\ raw_description = <<>> => result = <<>>

\* C15: clean_job_description applied to its own result returns that result.
C15_Idempotent ==
    pc = "done" /\ earlier # <<>> => result = earlier[1].result

----------------------------------------------------------------------------
(* Claims about normalize_currency, checked under SpecCurrency *)

\* C16: normalize_currency returns "RUB" for "RUR" and its argument for
\* every other value, no currency included; applied to its own result it
\* returns that result.
C16_OnlyRurChanges ==
    pc = "done" =>
        /\ currency = <<"R","U","R">> => result = <<"R","U","B">>
        /\ currency # <<"R","U","R">> => result = currency
        /\ earlier # <<>> => result = earlier[1].result

\* The second call got the "RUB" that the first call made of "RUR".
C16_Witness ==
    /\ pc = "done"
    /\ earlier # <<>>
    /\ earlier[1].currency = <<"R","U","R">>
    /\ currency = <<"R","U","B">>
    /\ result = <<"R","U","B">>

----------------------------------------------------------------------------
(* Claims about both deduplicate_jobs and filter_recent_jobs, checked under
   SpecFrame *)

\* C17: deduplicate_jobs and filter_recent_jobs leave the caller's batch, the
\* postings in it and the known ids as they were, and every posting they
\* return is a posting of the batch, unmodified.
C17_CallerDataUntouched ==
    [][/\ jobs' = jobs
       /\ existing_ids' = existing_ids
       /\ pc' = "done" =>
              \A k \in 1..Len(result') :
                  \E m \in 1..Len(jobs) : result'[k] = jobs[m]]_vars

\* deduplicate_jobs has returned some postings of a batch, not all, after
\* adding ids to its working set, which started from a known id.
C17_Witness ==
    /\ pc = "done"
    /\ existing_ids # {}
    /\ seen_ids # existing_ids
    /\ result # <<>>
    /\ Len(result) < Len(jobs)

----------------------------------------------------------------------------
(* Further claims about deduplicate_jobs, checked under SpecDedup *)

\* C18: deduplicate_jobs never raises for a batch in which company, title,
\* location, description or posted_at of a posting is missing, the key being
\* absent or its value null; the field counts as the empty string and the
\* other postings are still processed.
C18_MissingFieldsTolerated ==
    /\ pc # "raised"
    /\ error \notin {AttributeError, TypeError}

\* The map holds exactly the base signatures accepted, each with the posting
\* accepted last under it.
MapHoldsLastAccepted ==
    /\ \A k \in 1..Len(final_unique_jobs) :
           BaseSignature(final_unique_jobs[k]) \in DOMAIN seen_job_content
    /\ \A base \in DOMAIN seen_job_content :
           \E k \in 1..Len(final_unique_jobs) :
               /\ final_unique_jobs[k] = seen_job_content[base]
               /\ BaseSignature(final_unique_jobs[k]) = base
               /\ \A m \in (k + 1)..Len(final_unique_jobs) :
                      BaseSignature(final_unique_jobs[m]) # base

\* job is similar to other: both descriptions non-empty and agreeing on the
\* first or last 100 characters, and the same salary or a skypro company.
SimilarPosting(job, other) ==
    /\ DescText(job) # <<>>
    /\ DescText(other) # <<>>
    /\ SlicesAgree(job, other)
    /\ SameSalary(job, other) \/ Contains(TrimLower(job, "company"), Skypro)

\* C20: during pass 2 the base-signature map holds, for each base signature,
\* the posting accepted last under it; a discarded posting changes neither
\* the seen full signatures nor the map; similarity is decided against the
\* mapped posting alone.
C20_MapHoldsLastAccepted ==
    [][/\ pc' = "pass2" => MapHoldsLastAccepted'
       /\ Pass2Handled /\ Pass2Discarded =>
              /\ seen_job_signatures' = seen_job_signatures
              /\ seen_job_content' = seen_job_content
       /\ /\ Pass2Handled
          /\ FullSignature(sorted_jobs[i]) \notin seen_job_signatures
          /\ BaseSignature(sorted_jobs[i]) \in DOMAIN seen_job_content
          => (Pass2Discarded <=>
                  SimilarPosting(sorted_jobs[i],
                                 seen_job_content[BaseSignature(sorted_jobs[i])]))]_vars

\* Two postings of one base signature were accepted, the map holds the
\* second, and a third posting was discarded.
C20_Witness ==
    /\ pc = "pass2"
    /\ Len(final_unique_jobs) = 2
    /\ SameBase(final_unique_jobs[1], final_unique_jobs[2])
    /\ seen_job_content[BaseSignature(final_unique_jobs[2])] = final_unique_jobs[2]
    /\ Len(internal_duplicates) = 1

----------------------------------------------------------------------------
(* Claims about deduplicate_jobs as a function of its arguments, checked
   under SpecDedup *)

\* The function deduplicate_jobs gives what the step-by-step run gives: the
\* same list when the run returns, the same exception when it raises.
FunctionAgreesWithRun ==
    /\ pc = "done" =>
           deduplicate_jobs(jobs, existing_ids) = [error |-> NoError, jobs |-> result]
    /\ pc = "raised" => deduplicate_jobs(jobs, existing_ids).error = error

\* C22: deduplicate_jobs is idempotent for fixed known ids: called on the
\* list it returned, with the same known ids, it returns that list again, in
\* the same order.
C22_Idempotent ==
    /\ FunctionAgreesWithRun
    /\ pc = "done" =>
           deduplicate_jobs(result, existing_ids) = [error |-> NoError, jobs |-> result]

\* A returned call that dropped a posting and kept two with the same
\* posted_at, which a second sort has to leave in their order.
C22_Witness ==
    /\ pc = "done"
    /\ Len(result) < Len(jobs)
    /\ \E k \in 1..(Len(result) - 1) :
           PostedAtKey(result[k]) = PostedAtKey(result[k + 1])
    /\ deduplicate_jobs(result, existing_ids).jobs = result

\* Two postings of one base signature whose descriptions are non-empty and
\* agree on the first or last 100 characters, with the same salary triple.
SimilarPair(a, b) ==
    /\ SameBase(a, b)
    /\ IsStr(a.description) /\ IsStr(b.description)
    /\ DescText(a) # <<>> /\ DescText(b) # <<>>
    /\ SlicesAgree(a, b)
    /\ SameSalary(a, b)

\* C23: the returned list holds no two postings with the same base
\* signature, similar non-empty descriptions and the same salary triple,
\* whatever lies between them in the sorted order.
C23_NoSimilarPairReturned ==
    pc = "done" =>
        \A k, m \in 1..Len(result) : k < m => ~SimilarPair(result[k], result[m])

----------------------------------------------------------------------------
(* A claim about the signatures of deduplicate_jobs, checked under SpecHyphen *)

\* C24: two postings have the same base or full signature only when their
\* lowercased, trimmed fields are equal one by one: of two postings with
\* different unknown ids that differ in company or title, none is discarded.
C24_SignaturesFieldByField ==
    pc = "done" /\ TwoUnknownPostings /\ ~SameBase(jobs[1], jobs[2])
        => Len(result) = 2

----------------------------------------------------------------------------
(* Claims about append_jobs, checked under SpecAppend *)

\* The field is there and is neither null nor empty.
Filled(job, field) == job[field] \notin {Absent, None, <<>>}

Persistable(job) ==
    \A field \in {"job_id", "title", "company", "description"} : Filled(job, field)

RECURSIVE RowsOfPersistable(_)
\* The rows of the persistable postings among the first n that
\* deduplicate_jobs returned.
RowsOfPersistable(n) ==
    IF n = 0 THEN <<>>
    ELSE IF Persistable(result[n])
         THEN Append(RowsOfPersistable(n - 1), Row(result[n]))
         ELSE RowsOfPersistable(n - 1)

\* C19: append_jobs writes no row for a posting whose job_id, title, company
\* or description is empty or absent; deduplicate_jobs does not drop such a
\* posting, which reaches append_jobs and is rejected there.
C19_OnlyPersistableRows ==
    /\ pc = "rows" => values = RowsOfPersistable(i - 1)
    /\ \A k \in 1..Len(sheet) :
           \A field \in {"job_id", "title", "company", "description"} :
               sheet[k][field] # <<>>
    /\ pc \in {"rows", "returned"} /\ Len(jobs) = 1
           /\ JobId(jobs[1]) \notin existing_ids
           => result = jobs

\* append_jobs has gone through the postings deduplicate_jobs returned: one
\* without title was among them and got no row, another one got a row.
C19_Witness ==
    /\ pc = "rows"
    /\ i > Len(result)
    /\ \E k \in 1..Len(result) : ~Filled(result[k], "title")
    /\ \E k \in 1..Len(result) : ~Filled(result[k], "description")
    /\ Len(values) = 1
    /\ Len(result) = 3

----------------------------------------------------------------------------
(* Claims about the pipeline, checked under SpecSerial and SpecOverlap *)

\* The posting at index k of batch is not in kept for a reason found in the
\* batch: an earlier posting has its id, or a kept posting has its full
\* signature, or its base signature and a similar description and salary.
DiscardedForBatch(batch, k, kept) ==
    \/ \E m \in 1..(k - 1) : JobId(batch[m]) = JobId(batch[k])
    \/ \E m \in 1..Len(kept) :
           \/ FullSignature(kept[m]) = FullSignature(batch[k])
           \/ /\ BaseSignature(kept[m]) = BaseSignature(batch[k])
              /\ IsDuplicate(batch[k], kept[m])

NoRepeatedId ==
    \A k, m \in 1..Len(sheet) : k # m => sheet[k].job_id # sheet[m].job_id

\* C25: after any sequence of pipeline invocations that do not overlap and
\* in which every read of the stored ids succeeded, the worksheet holds no
\* two rows with the same job id; and an invocation whose read of the ids
\* fails goes on to deduplicate, against no ids, instead of ending.
C25_NoRepeatedIdSerial ==
    [][/\ ~read_failed' => NoRepeatedId'
       /\ \A r \in Runs :
              runs[r].pc = "ids" /\ runs'[r] # runs[r] =>
                  /\ runs'[r].pc = "dedup"
                  /\ read_failed' /\ ~read_failed => runs'[r].existing_ids = {}]_vars

\* Every read has succeeded, and an invocation has added one row to a
\* worksheet that held a row before it.
C25_Witness ==
    /\ ~read_failed
    /\ Len(sheet) = 2
    /\ \E r \in Runs : runs[r].pc = "returned" /\ runs[r].rows_written = 1

\* C26: when two invocations overlap, their reads of the stored ids and
\* their appends interleaving in any order, the worksheet still never holds
\* two rows with the same job id (every read succeeding).
C26_NoRepeatedIdOverlapping ==
    read_failed \/ ~(\E k, m \in 1..Len(sheet) :
                         k < m /\ sheet[k].job_id = sheet[m].job_id)

\* C27: when an invocation returns, every valid posting of its batch whose
\* id was not stored, and whose base signature it shares only with invalid
\* postings of the batch, has its row in the worksheet.
C27_ValidPostingWritten ==
    [][\A r \in Runs :
           runs[r].pc \in {"dedup", "write"} /\ runs'[r].pc = "returned" =>
               \A k \in 1..Len(runs[r].recent_jobs) :
                   LET P == runs[r].recent_jobs[k]
                   IN  /\ validate_job_data(P)
                       /\ JobId(P) \notin StoredIds(sheet)
                       /\ \A m \in 1..Len(runs[r].recent_jobs) :
                              m # k /\ SameBase(P, runs[r].recent_jobs[m])
                                  => ~validate_job_data(runs[r].recent_jobs[m])
                       => \E n \in 1..Len(sheet') : sheet'[n] = Row(P)]_vars

\* C28: the new_jobs_found an invocation reports is the number of rows its
\* append_jobs wrote.
C28_ReportedIsWritten ==
    \A r \in Runs :
        runs[r].pc = "returned" => runs[r].new_jobs_found = runs[r].rows_written

----------------------------------------------------------------------------
(* Claims about _make_request, checked under SpecRequest *)

\* C29: _make_request ends after at most max_retries HTTP requests,
\* whatever they come to; no request exception leaves it; it returns the
\* empty result whenever no request gave a response with a body; and the
\* k-th request comes after a delay of request_delay * 2^(k-1) seconds.
C29_BoundedRetries ==
    /\ [](/\ Len(attempts) <= max_retries
          /\ Len(slept) \in {Len(attempts), Len(attempts) + 1}
          /\ pc = "get" <=> Len(slept) = Len(attempts) + 1
          /\ \A k \in 1..Len(slept) : slept[k] = request_delay * (2 ^ (k - 1))
          /\ pc = "raised" =>
                 attempts[Len(attempts)] \notin {"403", "500", "exception"}
          /\ pc = "returned" =>
                 result = IF attempts[Len(attempts)] = "200"
                          THEN ResponseJson
                          ELSE EmptyItems)
    /\ <>(pc \in {"returned", "raised"})

\* Three requests were sent, a 403, a 400 and an exception, after delays of
\* 2, 4 and 8 seconds, and the call returned the empty result.
C29_Witness ==
    /\ pc = "returned"
    /\ attempts = <<"403", "400", "exception">>
    /\ slept = <<2, 4, 8>>
    /\ result = EmptyItems
    /\ "period" \notin params.keys

----------------------------------------------------------------------------
(* Claims about lambda_handler, checked under SpecLambda *)

\* C30: lambda_handler lets no exception out, and the statusCode it returns
\* is 500 when something raised, else 200 for an event with a body
\* (whatever its source), 200 for an event without a body whose source is
\* aws.events, and 400 for any other event.
C30_AlwaysResponds ==
    /\ pc # "raised"
    /\ pc = "returned" =>
           result = IF error # NoError THEN 500
                    ELSE IF event.has_body THEN 200
                    ELSE IF event.source = "aws.events" THEN 200
                    ELSE 400

====
